---- MODULE Spec2Model ----
(***************************************************************************)
(* Checkout completion of saleor/checkout/complete_checkout.py.            *)
(*                                                                         *)
(* Concurrent complete_checkout attempts run against one database          *)
(* (READ COMMITTED, row locks taken by select_for_update and held to the   *)
(* end of the enclosing transaction), one stock row, one usage-limited     *)
(* voucher and an external payment gateway.  Each attempt is a process     *)
(* whose position is att[a].pc; writes made inside a transaction are kept  *)
(* in tx[a] until the transaction commits or rolls back.                   *)
(***************************************************************************)
EXTENDS Integers, FiniteSets, Sequences, TLC

\* ------------------------------------------------------------------ bounds
NumAttempts   == 2      \* concurrent complete_checkout calls
NumCheckouts  == 2      \* checkout rows
MaxQuantity   == 3      \* largest checkout line quantity
StockQuantity == 2      \* Stock.quantity of the one variant
MaxUsageLimit == 2      \* largest Voucher.usage_limit
MaxTime       == 1      \* clock ticks
NumLines      == 1      \* lines of the checkout whose order lines are built
MaxPrice      == 3      \* largest unit price of a variant
MaxDiscount   == 2      \* largest unit discount of a promotion or a voucher

\* settings.RESERVE_DURATION, in clock ticks
RESERVE_DURATION == 1

Attempt  == 1..NumAttempts
Checkout == 1..NumCheckouts
None     == 0           \* Python None for an order / lock holder
NoData   == "{}"        \* empty action_data
NoError  == "-"

VARIABLES
    channel,        \* Channel row of the checkouts
    checkouts,      \* Checkout rows: exists, quantity, voucher_code, transactions
    voucher,        \* Voucher row: usage_limit, used
    orders,         \* committed Order rows (with their allocation)
    reservations,   \* committed Reservation rows
    now,            \* timezone.now()
    locks,          \* row locks: checkout[c], voucher, stock -> holder
    att,            \* per attempt: position and locals
    tx,             \* per attempt: uncommitted writes of the open transaction
    on_commit,      \* per attempt: transaction.on_commit queue holds the hooks
    hooks,          \* hooks that ran: order_created / send_order_confirmation
    gateway,        \* gateway calls issued per checkout payment
    checkout_lines,     \* lines of the checkout whose order lines are built
    tax_configuration,  \* checkout_info.tax_configuration
    order_lines         \* OrderLine objects that _create_lines_for_order built

vars == <<channel, checkouts, voucher, orders, reservations, now, locks, att, tx,
          on_commit, hooks, gateway, checkout_lines, tax_configuration,
          order_lines>>

\* ------------------------------------------------------------- collaborators

RECURSIVE SumQuantity(_)
SumQuantity(S) ==
    IF S = {} THEN 0
    ELSE LET x == CHOOSE y \in S : TRUE IN x.quantity + SumQuantity(S \ {x})

\* Allocation rows: one per order line, quantity_allocated of the line
Allocated == SumQuantity({[id |-> o.id, quantity |-> o.allocated] : o \in orders})

\* non-expired reservations of other checkouts' lines
ReservedByOthers(c) ==
    SumQuantity({[id |-> r.by, quantity |-> r.quantity] :
                 r \in {s \in reservations : s.line # c /\ s.until > now}})

\* check_stock_and_preorder_quantity_bulk(..., existing_lines=lines,
\* replace=True, check_reservations=True): TRUE when the quantity is available
check_stock_and_preorder_quantity_bulk(c, quantity) ==
    \/ ~checkouts[c].has_stock
    \/ quantity <= StockQuantity - Allocated - ReservedByOthers(c)

\* allocate_stocks(..., check_reservations=True, checkout_lines=...): locks the
\* stock row, then allocates when the quantity still fits
allocate_stocks(a, c, quantity) ==
    /\ locks.stock \in {None, a}
    /\ \/ ~checkouts[c].has_stock
       \/ quantity <= StockQuantity - Allocated - ReservedByOthers(c)

\* the quantity_allocated of the Allocation rows that allocate_stocks creates:
\* a line whose variant has no Stock row (a preorder variant) gets none
quantity_allocated(c, quantity) == IF checkouts[c].has_stock THEN quantity ELSE 0

\* get_voucher_for_checkout_info: the voucher of the checkout's code when it is
\* still active (usage left)
get_voucher_for_checkout_info(c) ==
    checkouts[c].voucher_code /\ voucher.used < voucher.usage_limit

\* checkout_info.get_customer_email()
get_customer_email(c) == checkouts[c].email

\* add_voucher_usage_by_customer(voucher, customer_email): TRUE when the
\* VoucherCustomer row is created, FALSE when the customer already has one and
\* NotApplicable is raised
add_voucher_usage_by_customer(email) == email \notin voucher.customers

\* remove_voucher_usage_by_customer, as release_voucher_usage calls it: the
\* VoucherCustomer rows that are deleted
remove_voucher_usage_by_customer(v, email) == IF v THEN {email} ELSE {}

\* Order.objects.get_by_checkout_token / filter(checkout_token=...).first()
get_by_checkout_token(c) ==
    LET found == {o \in orders : o.token = c}
    IN IF found = {} THEN None ELSE (CHOOSE o \in found : TRUE).id

\* Checkout.authorize_status = FULL, as fetch_checkout_data leaves it: a zero
\* total is covered by definition, any other total only by the amounts that
\* the checkout's payment transactions authorized or charged
authorize_status_is_full(c, covered) ==
    IF checkouts[c].total_is_zero THEN TRUE
    ELSE checkouts[c].transactions /\ covered

\* how a call of the pricing engine (calculations.*) can end
PricingOutcomes == {"ok", "TaxError"}

\* ------------------------------------------------------------------- results
Returned(order, action_required, action_data) ==
    [order |-> order, action_required |-> action_required,
     action_data |-> action_data, error |-> NoError]

Raised(code) ==
    [order |-> None, action_required |-> FALSE, action_data |-> NoData,
     error |-> code]

NoResult == Raised("pending")

\* ---------------------------------------------------------------------- Init
ChannelConfigs ==
    [allow_unpaid_orders : {FALSE},
     order_mark_as_paid_strategy : {"PAYMENT_FLOW"},
     automatically_confirm_all_new_orders : {FALSE}]

NoTx ==
    [used |-> 0, order |-> FALSE, quantity |-> 0, allocated |-> 0,
     deleted |-> FALSE, status |-> "-", paid |-> FALSE, removed |-> {}]

\* the Voucher row with its VoucherCustomer rows (the emails that used it)
VoucherRow(limit, once, customers) ==
    [usage_limit |-> limit, used |-> 0, apply_once_per_customer |-> once,
     customers |-> customers]

\* the completion steps do not look into the lines of the checkout
NoLines ==
    /\ checkout_lines = <<>>
    /\ tax_configuration = [prices_entered_with_tax |-> TRUE]
    /\ order_lines = <<>>

InitAttempt(c) ==
    [pc |-> "start", checkout |-> c, flow |-> "-", voucher |-> FALSE,
     payment |-> FALSE, txn |-> "-", error |-> NoError, result |-> NoResult,
     usage |-> 0, released |-> 0, refunds |-> 0, authorize_full |-> FALSE,
     is_active |-> TRUE, delete_checkout |-> TRUE,
     order_data |-> [lines |-> 0], refund_ongoing |-> FALSE,
     increased |-> 0, decreased |-> 0]

Init ==
    /\ \E target \in [Attempt -> Checkout] :
         /\ target[1] = 1
         /\ \A a \in Attempt : \A c \in 1..(target[a] - 1) :
                \E b \in 1..(a - 1) : target[b] = c
         /\ att = [a \in Attempt |-> InitAttempt(target[a])]
         /\ \E q \in [Checkout -> 1..MaxQuantity], v \in [Checkout -> BOOLEAN] :
              /\ \A c \in Checkout :
                    (\A a \in Attempt : target[a] # c) => (q[c] = 1 /\ ~v[c])
              /\ checkouts = [c \in Checkout |->
                    [exists |-> TRUE, quantity |-> q[c], voucher_code |-> v[c],
                     transactions |-> FALSE, total_is_zero |-> FALSE,
                     email |-> c,
                     has_stock |-> TRUE]]
    /\ \E limit \in 1..MaxUsageLimit : voucher = VoucherRow(limit, FALSE, {})
    /\ channel \in ChannelConfigs
    /\ orders = {}
    /\ reservations = {}
    /\ now = 0
    /\ locks = [checkout |-> [c \in Checkout |-> None], voucher |-> None,
                stock |-> None]
    /\ tx = [a \in Attempt |-> NoTx]
    /\ on_commit = [a \in Attempt |-> FALSE]
    /\ hooks = [order_created |-> [a \in Attempt |-> 0],
                send_order_confirmation |-> [a \in Attempt |-> 0]]
    /\ gateway = [c \in Checkout |-> [process |-> 0, refund |-> 0]]
    /\ NoLines

\* ------------------------------------------------------------ transactions
ReleaseLocks_KeepsCheckout(a) ==
    [checkout |-> locks.checkout,
     voucher  |-> IF locks.voucher = a THEN None ELSE locks.voucher,
     stock    |-> IF locks.stock = a THEN None ELSE locks.stock]

\* the row locks of the attempt's transaction end with the transaction
ReleaseLocks(a) ==
    [checkout |-> [c \in Checkout |->
                     IF locks.checkout[c] = a THEN None ELSE locks.checkout[c]],
     voucher  |-> IF locks.voucher = a THEN None ELSE locks.voucher,
     stock    |-> IF locks.stock = a THEN None ELSE locks.stock]

NewOrder(a) ==
    [id |-> a, token |-> att[a].checkout,
     quantity |-> tx[a].quantity,
     allocated |-> tx[a].allocated,
     voucher |-> att[a].voucher, flow |-> att[a].flow,
     status |-> tx[a].status, paid |-> FALSE,
     total_is_zero |-> checkouts[att[a].checkout].total_is_zero,
     transactions |-> checkouts[att[a].checkout].transactions]

\* the hooks queued with transaction.on_commit run right after the commit
RunHooks(a) ==
    [order_created |-> [hooks.order_created EXCEPT ![a] = @ + 1],
     send_order_confirmation |->
         [hooks.send_order_confirmation EXCEPT ![a] = @ + 1]]

CommitWrites_WithoutOrder(a, w) ==
    LET c == att[a].checkout IN
    /\ orders' = orders
    /\ checkouts' = IF w.deleted
                    THEN [checkouts EXCEPT ![c].exists = FALSE] ELSE checkouts
    /\ reservations' = IF w.deleted
                       THEN {r \in reservations : r.line # c} ELSE reservations
    /\ voucher' = [voucher EXCEPT !.used = @ + w.used,
                                  !.customers = @ \ w.removed]
    /\ hooks' = IF on_commit[a] THEN RunHooks(a) ELSE hooks
    /\ locks' = ReleaseLocks(a)
    /\ tx' = [tx EXCEPT ![a] = NoTx]
    /\ on_commit' = [on_commit EXCEPT ![a] = FALSE]

\* the outermost atomic block exits normally (or, for
\* transaction_with_commit_on_errors, with an error): the writes w become
\* visible, row locks are released, on_commit callbacks run
CommitWrites(a, w) ==
    LET c == att[a].checkout IN
    /\ orders' = {IF o.token = c /\ w.paid THEN [o EXCEPT !.paid = TRUE]
                   ELSE o :
                   o \in IF w.order THEN orders \cup {NewOrder(a)}
                          ELSE orders}
    /\ checkouts' = IF w.deleted
                    THEN [checkouts EXCEPT ![c].exists = FALSE] ELSE checkouts
    /\ reservations' = IF w.deleted
                       THEN {r \in reservations : r.line # c} ELSE reservations
    /\ voucher' = [voucher EXCEPT !.used = @ + w.used,
                                  !.customers = @ \ w.removed]
    /\ hooks' = IF on_commit[a] THEN RunHooks(a) ELSE hooks
    /\ locks' = ReleaseLocks(a)
    /\ tx' = [tx EXCEPT ![a] = NoTx]
    /\ on_commit' = [on_commit EXCEPT ![a] = FALSE]

\* the commit of the writes the transaction of the attempt has made
Commit(a) == CommitWrites(a, tx[a])

\* the atomic block exits with an exception: writes and on_commit callbacks are
\* discarded, row locks are released
Rollback(a) ==
    /\ locks' = ReleaseLocks(a)
    /\ tx' = [tx EXCEPT ![a] = NoTx]
    /\ on_commit' = [on_commit EXCEPT ![a] = FALSE]
    /\ UNCHANGED <<orders, checkouts, reservations, voucher, hooks>>

\* ------------------------------------------------------------- shared steps

CheckoutRow_NeverMissing(c) == TRUE

\* Checkout.objects.select_for_update().filter(pk=checkout_pk).first()
CheckoutRow(c) == checkouts[c].exists

CheckoutMissingResult_Raises(c) == Raised("NOT_FOUND")

\* "if not checkout: order = Order.objects.get_by_checkout_token(...); return"
CheckoutMissingResult(c) == Returned(get_by_checkout_token(c), FALSE, NoData)

_post_create_order_actions_at_once(a) ==
    /\ on_commit' = on_commit
    /\ hooks' = RunHooks(a)

\* transaction.on_commit(order_created ...), transaction.on_commit(
\* send_order_confirmation ...)
_post_create_order_actions(a) ==
    /\ on_commit' = [on_commit EXCEPT ![a] = TRUE]
    /\ hooks' = hooks

\* --------------------------------------------------------------- entry fork
UseTransactionFlow_strict(transactions, allow_unpaid, is_zero, is_transaction_flow) ==
    (transactions \/ allow_unpaid \/ is_zero) /\ is_transaction_flow

UseTransactionFlow(transactions, allow_unpaid, is_zero, is_transaction_flow) ==
    \/ transactions
    \/ allow_unpaid
    \/ (is_zero /\ is_transaction_flow)

PrepareInputs ==
    [billing_ok : BOOLEAN, authorize_full : BOOLEAN, gift_cards_ok : BOOLEAN,
     checkout_ok : BOOLEAN, tax_ok : BOOLEAN]

_prepare_checkout_with_transactions_unpaid(c, info_voucher, in) ==
    IF ~in.billing_ok THEN "BILLING_ADDRESS_NOT_SET"
    ELSE IF checkouts[c].voucher_code /\ ~info_voucher
         THEN "VOUCHER_NOT_APPLICABLE"
    ELSE IF ~in.gift_cards_ok THEN "GIFT_CARD_NOT_APPLICABLE"
    ELSE IF ~in.checkout_ok THEN "INVALID"
    ELSE IF ~in.tax_ok THEN "TAX_ERROR"
    ELSE NoError

\* the error of _prepare_checkout_with_transactions, NoError when it passes
_prepare_checkout_with_transactions(c, info_voucher, in) ==
    IF ~in.billing_ok THEN "BILLING_ADDRESS_NOT_SET"
    ELSE IF ~authorize_status_is_full(c, in.authorize_full)
            /\ ~channel.allow_unpaid_orders
         THEN "CHECKOUT_NOT_FULLY_PAID"
    ELSE IF checkouts[c].voucher_code /\ ~info_voucher
         THEN "VOUCHER_NOT_APPLICABLE"
    ELSE IF ~in.gift_cards_ok THEN "GIFT_CARD_NOT_APPLICABLE"
    ELSE IF ~in.checkout_ok THEN "INVALID"
    ELSE IF ~in.tax_ok THEN "TAX_ERROR"
    ELSE NoError

\* complete_checkout: the caller has fetched checkout_info from the existing
\* row; the flow is chosen and, on the transaction flow, the checkout prepared
complete_checkout(a) ==
    /\ att[a].pc = "start"
    /\ LET c == att[a].checkout
           info_voucher == get_voucher_for_checkout_info(c)
       IN
       /\ checkouts[c].exists
       /\ IF UseTransactionFlow(checkouts[c].transactions,
                                channel.allow_unpaid_orders,
                                checkouts[c].total_is_zero,
                                channel.order_mark_as_paid_strategy
                                    = "TRANSACTION_FLOW")
          THEN \E in \in PrepareInputs :
                 LET e == _prepare_checkout_with_transactions(c, info_voucher, in)
                 IN att' = [att EXCEPT
                        ![a].flow = "transaction",
                        ![a].authorize_full =
                            authorize_status_is_full(c, in.authorize_full),
                        ![a].voucher = IF e = NoError THEN info_voucher ELSE FALSE,
                        ![a].pc = IF e # NoError THEN "done"
                                  ELSE IF info_voucher THEN "t_voucher"
                                  ELSE "t_lock",
                        ![a].result = IF e # NoError THEN Raised(e) ELSE @]
          ELSE att' = [att EXCEPT
                 ![a].flow = "payment", ![a].pc = "phase1",
                 ![a].authorize_full = authorize_status_is_full(c, FALSE)]
    /\ UNCHANGED <<channel, checkouts, voucher, orders, reservations, now,
                   locks, tx, on_commit, hooks, gateway>>
    /\ UNCHANGED <<checkout_lines, tax_configuration, order_lines>>

\* --------------------------------------------------------- transaction flow

\* "except NotApplicable / InsufficientStock / GiftCardNotApplicable" of
\* complete_checkout_with_transaction: the ValidationError code raised for the
\* exception, or the exception itself when no clause names it
complete_checkout_with_transaction_except(e) ==
    CASE e = "NotApplicable" -> "VOUCHER_NOT_APPLICABLE"
      [] e = "InsufficientStock" -> "INSUFFICIENT_STOCK"
      [] e = "GiftCardNotApplicable" -> "GIFT_CARD_NOT_APPLICABLE"
      [] OTHER -> e

\* "with transaction.atomic(): _increase_voucher_usage(checkout_info)": a short
\* transaction that locks the voucher row, increments and commits
_increase_voucher_usage(a) ==
    /\ att[a].pc = "t_voucher"
    /\ locks.voucher = None
    /\ LET found == get_voucher_for_checkout_info(att[a].checkout)
           email == get_customer_email(att[a].checkout)
           once == voucher.apply_once_per_customer
       IN
       IF found /\ once /\ ~add_voucher_usage_by_customer(email)
       THEN \* NotApplicable leaves the short transaction and
            \* create_order_from_checkout
            /\ voucher' = voucher
            /\ att' = [att EXCEPT
                   ![a].pc = "done",
                   ![a].result =
                       Raised(IF att[a].flow = "transaction"
                              THEN complete_checkout_with_transaction_except(
                                       "NotApplicable")
                              ELSE "NotApplicable")]
       ELSE /\ voucher' = IF found
                          THEN [voucher EXCEPT
                                   !.used = @ + 1,
                                   !.customers = IF once THEN @ \cup {email}
                                                 ELSE @]
                          ELSE voucher
            /\ att' = [att EXCEPT ![a].pc = "t_lock",
                                  ![a].usage = IF found THEN @ + 1 ELSE @,
                                  ![a].increased = IF found THEN @ + 1 ELSE @]
    /\ UNCHANGED <<channel, checkouts, orders, reservations, now, locks, tx,
                   on_commit, hooks, gateway>>
    /\ UNCHANGED <<checkout_lines, tax_configuration, order_lines>>

\* create_order_from_checkout: the order transaction opens and locks the
\* checkout row, or finds it gone
create_order_from_checkout(a) ==
    /\ att[a].pc = "t_lock"
    /\ LET c == att[a].checkout IN
       /\ locks.checkout[c] = None
       /\ IF ~CheckoutRow(c)
          THEN /\ att' = [att EXCEPT ![a].pc = "done",
                                     ![a].result = CheckoutMissingResult(c)]
               /\ locks' = locks
          ELSE /\ att' = [att EXCEPT ![a].pc = "t_create"]
               /\ locks' = [locks EXCEPT !.checkout[c] = a]
    /\ UNCHANGED <<channel, checkouts, voucher, orders, reservations, now, tx,
                   on_commit, hooks, gateway>>
    /\ UNCHANGED <<checkout_lines, tax_configuration, order_lines>>

_handle_allocations_of_order_lines(a, c, quantity) ==
    allocate_stocks(a, c, quantity)

_create_order_from_checkout_status_auto(auto_confirm, transactions) ==
    IF auto_confirm THEN "UNFULFILLED" ELSE "UNCONFIRMED"

\* "status = UNFULFILLED if channel.automatically_confirm_all_new_orders and
\*  checkout.payment_transactions.exists() else UNCONFIRMED"
_create_order_from_checkout_status(auto_confirm, transactions) ==
    IF auto_confirm /\ transactions THEN "UNFULFILLED" ELSE "UNCONFIRMED"

\* _create_order_from_checkout under the checkout lock, and checkout.delete()
_create_order_from_checkout(a) ==
    /\ att[a].pc = "t_create"
    /\ LET c == att[a].checkout
           q == checkouts[c].quantity
           status == _create_order_from_checkout_status(
                         channel.automatically_confirm_all_new_orders,
                         checkouts[c].transactions)
       IN
       \/ \* a pricing call raises TaxError before the order row is created:
          \* no except clause on the way out catches it
          /\ "TaxError" \in PricingOutcomes
          /\ att' = [att EXCEPT ![a].pc = "t_rollback", ![a].error = "TaxError"]
          /\ UNCHANGED <<locks, tx, on_commit, hooks>>
       \/ \* _create_lines_for_order raises InsufficientStock
          /\ ~check_stock_and_preorder_quantity_bulk(c, q)
          /\ att' = [att EXCEPT ![a].pc = "t_except",
                                ![a].error = "InsufficientStock"]
          /\ tx' = [tx EXCEPT ![a].order = TRUE, ![a].quantity = q,
                              ![a].status = status]
          /\ UNCHANGED <<locks, on_commit, hooks>>
       \/ /\ check_stock_and_preorder_quantity_bulk(c, q)
          /\ locks.stock \in {None, a}
          /\ locks' = [locks EXCEPT !.stock = a]
          /\ \E gift_cards_ok \in BOOLEAN :
               IF ~_handle_allocations_of_order_lines(a, c, q)
               THEN /\ att' = [att EXCEPT ![a].pc = "t_except",
                                          ![a].error = "InsufficientStock"]
                    /\ tx' = [tx EXCEPT ![a].order = TRUE, ![a].quantity = q,
                                        ![a].status = status]
                    /\ UNCHANGED <<on_commit, hooks>>
               ELSE IF ~gift_cards_ok
               THEN /\ att' = [att EXCEPT ![a].pc = "t_except",
                                          ![a].error = "GiftCardNotApplicable"]
                    /\ tx' = [tx EXCEPT ![a].order = TRUE, ![a].quantity = q,
                                        ![a].allocated = quantity_allocated(c, q),
                                        ![a].status = status]
                    /\ UNCHANGED <<on_commit, hooks>>
               ELSE /\ att' = [att EXCEPT ![a].pc = "t_commit"]
                    /\ tx' = [tx EXCEPT ![a].order = TRUE, ![a].quantity = q,
                                        ![a].allocated = quantity_allocated(c, q),
                                        ![a].status = status,
                                        ![a].deleted = att[a].delete_checkout]
                    /\ _post_create_order_actions(a)
    /\ UNCHANGED <<channel, checkouts, voucher, orders, reservations, now,
                   gateway>>
    /\ UNCHANGED <<checkout_lines, tax_configuration, order_lines>>

\* "except InsufficientStock / GiftCardNotApplicable:
\*      release_voucher_usage(checkout_info.voucher, ...); raise"
\* runs inside the order transaction
create_order_from_checkout_except(a) ==
    /\ att[a].pc = "t_except"
    /\ IF att[a].voucher
       THEN /\ locks.voucher \in {None, a}
            /\ locks' = [locks EXCEPT !.voucher = a]
            /\ tx' = [tx EXCEPT
                   ![a].used = @ - 1,
                   ![a].removed = remove_voucher_usage_by_customer(
                       TRUE, get_customer_email(att[a].checkout))]
            /\ att' = [att EXCEPT ![a].pc = "t_rollback", ![a].released = @ + 1,
                                  ![a].decreased = @ + 1]
       ELSE /\ att' = [att EXCEPT ![a].pc = "t_rollback", ![a].released = @ + 1]
            /\ UNCHANGED <<locks, tx>>
    /\ UNCHANGED <<channel, checkouts, voucher, orders, reservations, now,
                   on_commit, hooks, gateway>>
    /\ UNCHANGED <<checkout_lines, tax_configuration, order_lines>>

\* the exception leaves "with transaction.atomic()"; complete_checkout_with_
\* transaction translates it, any other caller of create_order_from_checkout
\* gets it as it is
create_order_from_checkout_rollback(a) ==
    /\ att[a].pc = "t_rollback"
    /\ Rollback(a)
    /\ att' = [att EXCEPT
           ![a].pc = "done", ![a].error = NoError,
           ![a].result =
               Raised(IF att[a].flow = "transaction"
                      THEN complete_checkout_with_transaction_except(att[a].error)
                      ELSE att[a].error)]
    /\ UNCHANGED <<channel, now, gateway>>
    /\ UNCHANGED <<checkout_lines, tax_configuration, order_lines>>

\* "return order" leaves "with transaction.atomic()"
create_order_from_checkout_commit(a) ==
    /\ att[a].pc = "t_commit"
    /\ Commit(a)
    /\ att' = [att EXCEPT ![a].pc = "done",
                          ![a].result = Returned(a, FALSE, NoData)]
    /\ UNCHANGED <<channel, now, gateway>>
    /\ UNCHANGED <<checkout_lines, tax_configuration, order_lines>>

\* -------------------------------------------------------------- payment flow
ActionData == "3ds"     \* txn.action_required_data of the gateway

\* release_voucher_usage(voucher, user_email): the change of Voucher.used
release_voucher_usage(v) == IF v THEN -1 ELSE 0

\* phase 1 opens: transaction_with_commit_on_errors locks the checkout row, or
\* finds it gone
complete_checkout_with_payment(a) ==
    /\ att[a].pc = "phase1"
    /\ LET c == att[a].checkout IN
       /\ locks.checkout[c] = None
       /\ IF ~CheckoutRow(c)
          THEN /\ att' = [att EXCEPT ![a].pc = "done",
                                     ![a].result = CheckoutMissingResult(c)]
               /\ locks' = locks
          ELSE /\ att' = [att EXCEPT ![a].pc = "p1_prepare"]
               /\ locks' = [locks EXCEPT !.checkout[c] = a]
    /\ UNCHANGED <<channel, checkouts, voucher, orders, reservations, now, tx,
                   on_commit, hooks, gateway>>
    /\ UNCHANGED <<checkout_lines, tax_configuration, order_lines>>

PrePaymentReraised_PaymentError(exc) == "PAYMENT_ERROR"

\* "except ValidationError as exc: gateway.payment_refund_or_void(...);
\*  raise exc": the error that leaves complete_checkout_pre_payment_part
PrePaymentReraised(exc) == exc

PrePaymentError_Ignored(a, payment, e, voucher_locked, used) ==
    /\ att' = [att EXCEPT ![a].pc = "p2_gateway", ![a].payment = payment]
    /\ gateway' = [gateway EXCEPT ![att[a].checkout].process = @ + 1]
    /\ locks' = ReleaseLocks(a)
    /\ UNCHANGED <<checkouts, voucher, orders, reservations, tx, on_commit,
                   hooks>>

\* a ValidationError inside phase 1: gateway.payment_refund_or_void(payment) is
\* called under the lock when there is a payment, then the error leaves
\* transaction_with_commit_on_errors, which commits
PrePaymentError(a, payment, e, voucher_locked, used) ==
    IF payment
    THEN /\ att' = [att EXCEPT
                ![a].pc = "p1_refund", ![a].payment = TRUE,
                ![a].error = e, ![a].refunds = @ + 1,
                ![a].increased = @ + (IF voucher_locked THEN 1 ELSE 0),
                ![a].decreased = @ + (IF voucher_locked THEN 1 ELSE 0) - used]
         /\ gateway' = [gateway EXCEPT ![att[a].checkout].refund = @ + 1]
         /\ locks' = IF voucher_locked THEN [locks EXCEPT !.voucher = a] ELSE locks
         /\ tx' = [tx EXCEPT ![a].used = used]
         /\ UNCHANGED <<checkouts, voucher, orders, reservations, on_commit,
                        hooks>>
    ELSE /\ att' = [att EXCEPT
                ![a].pc = "done", ![a].usage = @ + used,
                ![a].increased = @ + (IF voucher_locked THEN 1 ELSE 0),
                ![a].decreased = @ + (IF voucher_locked THEN 1 ELSE 0) - used,
                ![a].result = Raised(PrePaymentReraised(e))]
         /\ CommitWrites(a, [tx[a] EXCEPT !.used = used])
         /\ gateway' = gateway

PrePaymentInputs ==
    [checkout_ok : BOOLEAN, pricing_ok : BOOLEAN, gift_cards_ok : BOOLEAN]

\* the error of _prepare_checkout_with_payment and of _prepare_order_data up to
\* _validate_gift_cards (as _get_order_data translates it), NoError when they
\* pass
_prepare_checkout_with_payment(c, payment, in) ==
    IF ~payment /\ ~checkouts[c].total_is_zero THEN "CHECKOUT_NOT_FULLY_PAID"
    ELSE IF ~in.checkout_ok THEN "INVALID"
    ELSE IF ~in.pricing_ok /\ "TaxError" \in PricingOutcomes THEN "TAX_ERROR"
    ELSE IF ~check_stock_and_preorder_quantity_bulk(c, checkouts[c].quantity)
         THEN "INSUFFICIENT_STOCK"
    ELSE IF ~in.gift_cards_ok THEN "GIFT_CARD_NOT_APPLICABLE"
    ELSE NoError

complete_checkout_pre_payment_part(a) ==
    /\ att[a].pc = "p1_prepare"
    /\ \E payment \in BOOLEAN, in \in PrePaymentInputs :
         LET e == _prepare_checkout_with_payment(att[a].checkout, payment, in)
         IN IF e = NoError
            THEN /\ att' = [att EXCEPT
                        ![a].pc = "p1_voucher", ![a].payment = payment,
                        ![a].order_data =
                            [lines |-> checkouts[att[a].checkout].quantity]]
                 /\ UNCHANGED <<checkouts, voucher, orders, reservations, locks,
                                tx, on_commit, hooks, gateway>>
            ELSE PrePaymentError(a, payment, e, FALSE, 0)
    /\ UNCHANGED <<channel, now>>
    /\ UNCHANGED <<checkout_lines, tax_configuration, order_lines>>

\* "for line in lines: if line.variant.id in variants_stocks_map: Reservation(
\*  quantity_reserved=line.line.quantity, reserved_until=now + RESERVE_DURATION)"
_reserve_stocks_without_availability_check(a, c) ==
    IF checkouts[c].has_stock
    THEN {[line |-> c, by |-> a, quantity |-> checkouts[c].quantity,
           until |-> now + RESERVE_DURATION]}
    ELSE {}

\* _process_voucher_data_for_order, the tax hook, the reservations and the end
\* of phase 1; with a payment the gateway call starts after the commit
_process_voucher_data_for_order(a) ==
    /\ att[a].pc = "p1_voucher"
    /\ LET c == att[a].checkout
           has_code == checkouts[c].voucher_code
           found == get_voucher_for_checkout_info(c)
           email == get_customer_email(c)
           once == voucher.apply_once_per_customer
       IN
       /\ found => locks.voucher \in {None, a}
       /\ \E tax_ok \in BOOLEAN :
            IF has_code /\ ~found
            THEN PrePaymentError(a, att[a].payment, "VOUCHER_NOT_APPLICABLE",
                                 FALSE, 0)
            ELSE IF found /\ once /\ ~add_voucher_usage_by_customer(email)
            THEN \* increase_voucher_usage, then add_voucher_usage_by_customer
                 \* raises NotApplicable
                 PrePaymentError(a, att[a].payment, "VOUCHER_NOT_APPLICABLE",
                                 TRUE, 1)
            ELSE IF ~tax_ok
            THEN \* increase_voucher_usage, then release_voucher_usage
                 PrePaymentError(a, att[a].payment, "TAX_ERROR", found, 0)
            ELSE /\ voucher' = IF found
                               THEN [voucher EXCEPT
                                        !.used = @ + 1,
                                        !.customers = IF once
                                                      THEN @ \cup {email}
                                                      ELSE @]
                               ELSE voucher
                 /\ reservations' = reservations \cup
                        _reserve_stocks_without_availability_check(a, c)
                 /\ locks' = ReleaseLocks(a)
                 /\ att' = [att EXCEPT
                        ![a].voucher = found,
                        ![a].usage = IF found THEN @ + 1 ELSE @,
                        ![a].increased = IF found THEN @ + 1 ELSE @,
                        ![a].pc = IF att[a].payment THEN "p2_gateway"
                                  ELSE "phase3"]
                 /\ gateway' = IF att[a].payment
                               THEN [gateway EXCEPT ![c].process = @ + 1]
                               ELSE gateway
                 /\ UNCHANGED <<checkouts, orders, tx, on_commit, hooks>>
    /\ UNCHANGED <<channel, now>>
    /\ UNCHANGED <<checkout_lines, tax_configuration, order_lines>>

\* gateway.payment_refund_or_void returns; the ValidationError leaves phase 1
pre_payment_refund_or_void(a) ==
    /\ att[a].pc = "p1_refund"
    /\ Commit(a)
    /\ att' = [att EXCEPT ![a].pc = "done", ![a].error = NoError,
                          ![a].usage = @ + tx[a].used,
                          ![a].result = Raised(PrePaymentReraised(att[a].error))]
    /\ UNCHANGED <<channel, now, gateway>>
    /\ UNCHANGED <<checkout_lines, tax_configuration, order_lines>>

GatewayOutcomes == {"failed", "success", "action_required"}

txn_is_success_unchecked(txn) == TRUE

\* "if not txn.is_success: raise PaymentError(txn.error)", and a PaymentError
\* that the gateway call itself raises
txn_is_success(txn) == txn # "failed"

PaymentErrorRelease_Skipped(v) == 0

\* "except PaymentError: release_voucher_usage(order_data.get("voucher"), ...)"
PaymentErrorRelease(v) == release_voucher_usage(v)

PaymentBecameInactive_Ignored(is_active) == FALSE

\* "payment.refresh_from_db(); if not payment.is_active:"
PaymentBecameInactive(is_active) == ~is_active

\* phase 2: gateway.confirm / gateway.process_payment returns, then the
\* payment is re-read
_process_payment(a) ==
    /\ att[a].pc = "p2_gateway"
    /\ \E txn \in GatewayOutcomes, is_active \in BOOLEAN :
         IF ~txn_is_success(txn)
         THEN /\ att[a].voucher => locks.voucher = None
              /\ voucher' = [voucher EXCEPT
                     !.used = @ + PaymentErrorRelease(att[a].voucher),
                     !.customers = @ \ remove_voucher_usage_by_customer(
                         att[a].voucher, get_customer_email(att[a].checkout))]
              /\ att' = [att EXCEPT
                     ![a].pc = "done",
                     ![a].usage = @ + PaymentErrorRelease(att[a].voucher),
                     ![a].decreased = @ - PaymentErrorRelease(att[a].voucher),
                     ![a].released = @ + 1, ![a].txn = txn,
                     ![a].result = Raised("PAYMENT_ERROR")]
              /\ gateway' = gateway
         ELSE IF PaymentBecameInactive(is_active)
         THEN /\ att' = [att EXCEPT ![a].pc = "done", ![a].refunds = @ + 1,
                                    ![a].txn = txn, ![a].is_active = is_active,
                                    ![a].result = Raised("INACTIVE_PAYMENT")]
              /\ gateway' = [gateway EXCEPT ![att[a].checkout].refund = @ + 1]
              /\ voucher' = voucher
         ELSE /\ att' = [att EXCEPT ![a].pc = "phase3", ![a].txn = txn,
                                    ![a].is_active = is_active]
              /\ UNCHANGED <<gateway, voucher>>
    /\ UNCHANGED <<channel, checkouts, orders, reservations, now, locks, tx,
                   on_commit, hooks>>
    /\ UNCHANGED <<checkout_lines, tax_configuration, order_lines>>

phase3_voucher_code_saved(c) == FALSE

\* "checkout_info.checkout.voucher_code = None": the code is cleared on the
\* object in memory and no save of the checkout follows, so the Checkout row
\* keeps the code it has
phase3_voucher_code(c) == checkouts[c].voucher_code

\* phase 3 opens: the checkout row is locked again, or found gone
complete_checkout_with_payment_phase3(a) ==
    /\ att[a].pc = "phase3"
    /\ LET c == att[a].checkout IN
       /\ locks.checkout[c] = None
       /\ IF ~CheckoutRow(c)
          THEN /\ att' = [att EXCEPT ![a].pc = "done",
                                     ![a].result = CheckoutMissingResult(c)]
               /\ locks' = locks
               /\ checkouts' = checkouts
          ELSE /\ att' = [att EXCEPT ![a].pc = "p3_post"]
               /\ locks' = [locks EXCEPT !.checkout[c] = a]
               /\ checkouts' = [checkouts EXCEPT
                      ![c].voucher_code = phase3_voucher_code(c)]
    /\ UNCHANGED <<channel, voucher, orders, reservations, now, tx,
                   on_commit, hooks, gateway>>
    /\ UNCHANGED <<checkout_lines, tax_configuration, order_lines>>

_is_refund_ongoing_ignored(payment, refund_ongoing) == FALSE

\* "payment.transactions.filter(kind=REFUND_ONGOING, is_success=True).exists()
\*  if payment else False"
_is_refund_ongoing(payment, refund_ongoing) == payment /\ refund_ongoing

_create_order_returns_existing_notifies(a) == _post_create_order_actions(a)

\* "order = Order.objects.filter(checkout_token=checkout.token).first()
\*  if order is not None: return order": _create_order returns before its
\* transaction.on_commit calls, so nothing is queued
_create_order_returns_existing(a) ==
    /\ on_commit' = on_commit
    /\ hooks' = hooks

\* "status = UNFULFILLED if channel.automatically_confirm_all_new_orders else
\*  UNCONFIRMED" in _create_order
_create_order_status(auto_confirm) ==
    IF auto_confirm THEN "UNFULFILLED" ELSE "UNCONFIRMED"

\* "if order.total.net.amount == 0: if order.channel.order_mark_as_paid_strategy
\*  == MarkAsPaidStrategy.PAYMENT_FLOW: mark_order_as_paid_with_payment(...)"
mark_order_as_paid_with_payment(total_is_zero, strategy) ==
    total_is_zero /\ strategy = "PAYMENT_FLOW"

_create_order_allocations_unchecked(a, c, quantity) == TRUE

\* allocate_stocks / allocate_preorders inside _create_order
_create_order_allocations(a, c, quantity) == allocate_stocks(a, c, quantity)

PostPaymentCompensation_NoRefund(v, payment) ==
    [release |-> release_voucher_usage(v), refund |-> FALSE]

\* "except InsufficientStock / GiftCardNotApplicable" of the post-payment part:
\* what is compensated before the error is raised
PostPaymentCompensation(v, payment) ==
    [release |-> release_voucher_usage(v), refund |-> payment]

ActionRequiredRelease_Skipped(v) == 0

\* "if action_required: release_voucher_usage(...)"
ActionRequiredRelease(v) == release_voucher_usage(v)

\* the result of the post-payment part when no order is created
NoOrderResult(action_required, action_data) ==
    Returned(None, action_required, action_data)

order_lines_info_refetched(a, c) == checkouts[c].quantity

\* "order_lines_info = order_data.pop("lines")": the lines that phase 1 built,
\* not the lines that phase 3 re-fetched
order_lines_info(a, c) == att[a].order_data.lines

PostPaymentInputs == [refund_ongoing : BOOLEAN, gift_cards_ok : BOOLEAN]

\* phase 3 under the checkout lock: complete_checkout_post_payment_part with
\* _create_order (an atomic block of its own: a savepoint) and checkout.delete()
complete_checkout_post_payment_part(a) ==
    /\ att[a].pc = "p3_post"
    /\ LET c == att[a].checkout
           q == order_lines_info(a, c)
           v == att[a].voucher
           action_required == att[a].payment /\ att[a].txn = "action_required"
           existing == get_by_checkout_token(c)
           paid == mark_order_as_paid_with_payment(
                       checkouts[c].total_is_zero,
                       channel.order_mark_as_paid_strategy)
       IN
       \E in \in PostPaymentInputs :
         LET refund_ongoing == att[a].payment /\ in.refund_ongoing IN
         IF action_required
         THEN /\ v => locks.voucher \in {None, a}
              /\ locks' = IF v THEN [locks EXCEPT !.voucher = a] ELSE locks
              /\ tx' = [tx EXCEPT
                     ![a].used = @ + ActionRequiredRelease(v),
                     ![a].removed = remove_voucher_usage_by_customer(
                         v, get_customer_email(c))]
              /\ att' = [att EXCEPT
                        ![a].refund_ongoing = refund_ongoing,
                        ![a].pc = "p3_commit", ![a].released = @ + 1,
                        ![a].decreased = @ - ActionRequiredRelease(v),
                        ![a].result = NoOrderResult(TRUE, ActionData)]
              /\ UNCHANGED <<on_commit, hooks, gateway>>
         ELSE IF _is_refund_ongoing(att[a].payment, in.refund_ongoing)
         THEN /\ att' = [att EXCEPT
                        ![a].refund_ongoing = refund_ongoing,
                        ![a].pc = "p3_commit",
                        ![a].result = NoOrderResult(FALSE, NoData)]
              /\ UNCHANGED <<locks, tx, on_commit, hooks, gateway>>
         ELSE IF existing # None
         THEN \* the guard of _create_order returns the existing order
              /\ att' = [att EXCEPT
                        ![a].refund_ongoing = refund_ongoing,
                        ![a].pc = "p3_commit",
                        ![a].result = Returned(existing, FALSE, NoData)]
              /\ tx' = [tx EXCEPT ![a].deleted = TRUE, ![a].paid = paid]
              /\ _create_order_returns_existing(a)
              /\ UNCHANGED <<locks, gateway>>
         ELSE /\ locks.stock \in {None, a}
              /\ IF _create_order_allocations(a, c, q) /\ in.gift_cards_ok
                 THEN /\ locks' = [locks EXCEPT !.stock = a]
                      /\ tx' = [tx EXCEPT
                             ![a].order = TRUE, ![a].quantity = q,
                             ![a].allocated = quantity_allocated(c, q),
                             ![a].status = _create_order_status(
                                 channel.automatically_confirm_all_new_orders),
                             ![a].paid = paid, ![a].deleted = TRUE]
                      /\ _post_create_order_actions(a)
                      /\ att' = [att EXCEPT
                                ![a].refund_ongoing = refund_ongoing,
                                ![a].pc = "p3_commit",
                                ![a].result = Returned(a, FALSE, NoData)]
                      /\ gateway' = gateway
                 ELSE \* the savepoint of _create_order is rolled back
                      LET e == IF ~_create_order_allocations(a, c, q)
                               THEN "INSUFFICIENT_STOCK"
                               ELSE "GIFT_CARD_NOT_APPLICABLE"
                          comp == PostPaymentCompensation(v, att[a].payment)
                      IN /\ v => locks.voucher \in {None, a}
                         /\ locks' = IF v THEN [locks EXCEPT !.voucher = a]
                                     ELSE locks
                         /\ tx' = [tx EXCEPT
                                ![a].used = @ + comp.release,
                                ![a].removed = remove_voucher_usage_by_customer(
                                    v, get_customer_email(c))]
                         /\ UNCHANGED <<on_commit, hooks>>
                         /\ IF comp.refund
                            THEN /\ att' = [att EXCEPT
                                           ![a].refund_ongoing = refund_ongoing,
                                           ![a].pc = "p3_refund", ![a].error = e,
                                           ![a].released = @ + 1,
                                           ![a].decreased = @ - comp.release,
                                           ![a].refunds = @ + 1]
                                 /\ gateway' = [gateway EXCEPT ![c].refund = @ + 1]
                            ELSE /\ att' = [att EXCEPT
                                           ![a].refund_ongoing = refund_ongoing,
                                           ![a].pc = "p3_commit",
                                           ![a].released = @ + 1,
                                           ![a].decreased = @ - comp.release,
                                           ![a].result = Raised(e)]
                                 /\ gateway' = gateway
    /\ UNCHANGED <<channel, checkouts, voucher, orders, reservations, now>>
    /\ UNCHANGED <<checkout_lines, tax_configuration, order_lines>>

\* gateway.payment_refund_or_void returns; the ValidationError leaves phase 3,
\* whose transaction_with_commit_on_errors commits
post_payment_refund_or_void(a) ==
    /\ att[a].pc = "p3_refund"
    /\ Commit(a)
    /\ att' = [att EXCEPT ![a].pc = "done", ![a].error = NoError,
                          ![a].usage = @ + tx[a].used,
                          ![a].result = Raised(att[a].error)]
    /\ UNCHANGED <<channel, now, gateway>>
    /\ UNCHANGED <<checkout_lines, tax_configuration, order_lines>>

\* phase 3 ends: transaction_with_commit_on_errors commits
complete_checkout_with_payment_commit(a) ==
    /\ att[a].pc = "p3_commit"
    /\ Commit(a)
    /\ att' = [att EXCEPT ![a].pc = "done", ![a].usage = @ + tx[a].used]
    /\ UNCHANGED <<channel, now, gateway>>
    /\ UNCHANGED <<checkout_lines, tax_configuration, order_lines>>

\* ------------------------------------------------------------ environment

Tick ==
    /\ now < MaxTime
    /\ now' = now + 1
    /\ UNCHANGED <<channel, checkouts, voucher, orders, reservations, locks, att, tx,
                   on_commit, hooks, gateway>>
    /\ UNCHANGED <<checkout_lines, tax_configuration, order_lines>>

\* a payment app records a transaction item on the checkout (the insert takes a
\* key-share lock on the checkout row, so it waits for select_for_update)
TransactionCreated(c) ==
    /\ checkouts[c].exists
    /\ ~checkouts[c].transactions
    /\ locks.checkout[c] = None
    /\ \E a \in Attempt : att[a].checkout = c
    /\ checkouts' = [checkouts EXCEPT ![c].transactions = TRUE]
    /\ UNCHANGED <<channel, voucher, orders, reservations, now, locks, att, tx,
                   on_commit, hooks, gateway>>
    /\ UNCHANGED <<checkout_lines, tax_configuration, order_lines>>

Next ==
    \/ Tick
    \/ \E c \in Checkout : TransactionCreated(c)
    \/ \E a \in Attempt :
         \/ complete_checkout(a)
         \/ _increase_voucher_usage(a)
         \/ create_order_from_checkout(a)
         \/ _create_order_from_checkout(a)
         \/ create_order_from_checkout_except(a)
         \/ create_order_from_checkout_rollback(a)
         \/ create_order_from_checkout_commit(a)
         \/ complete_checkout_with_payment(a)
         \/ complete_checkout_pre_payment_part(a)
         \/ _process_voucher_data_for_order(a)
         \/ pre_payment_refund_or_void(a)
         \/ _process_payment(a)
         \/ complete_checkout_with_payment_phase3(a)
         \/ complete_checkout_post_payment_part(a)
         \/ post_payment_refund_or_void(a)
         \/ complete_checkout_with_payment_commit(a)

Spec == Init /\ [][Next]_vars

\* ------------------------------------------------- every channel configuration
AllChannelConfigs ==
    [allow_unpaid_orders : BOOLEAN,
     order_mark_as_paid_strategy : {"PAYMENT_FLOW", "TRANSACTION_FLOW"},
     automatically_confirm_all_new_orders : BOOLEAN]

\* one attempt per checkout, on any channel configuration and with zero and
\* non-zero totals; the first checkout carries the voucher
InitChannel ==
    /\ channel \in AllChannelConfigs
    /\ att = [a \in Attempt |-> InitAttempt(((a - 1) % NumCheckouts) + 1)]
    /\ \E zero \in [Checkout -> BOOLEAN] :
         checkouts = [c \in Checkout |->
            [exists |-> TRUE, quantity |-> 1, voucher_code |-> (c = 1),
             transactions |-> FALSE, total_is_zero |-> zero[c], email |-> c,
             has_stock |-> TRUE]]
    /\ voucher = VoucherRow(MaxUsageLimit, FALSE, {})
    /\ orders = {}
    /\ reservations = {}
    /\ now = 0
    /\ locks = [checkout |-> [c \in Checkout |-> None], voucher |-> None,
                stock |-> None]
    /\ tx = [a \in Attempt |-> NoTx]
    /\ on_commit = [a \in Attempt |-> FALSE]
    /\ hooks = [order_created |-> [a \in Attempt |-> 0],
                send_order_confirmation |-> [a \in Attempt |-> 0]]
    /\ gateway = [c \in Checkout |-> [process |-> 0, refund |-> 0]]
    /\ NoLines

SpecChannel == InitChannel /\ [][Next]_vars

\* ------------------------------------- create_order_from_checkout called directly
\* a caller other than complete_checkout (it has fetched checkout_info from the
\* existing row) calls create_order_from_checkout with its delete_checkout flag
create_order_from_checkout_call(a) ==
    /\ att[a].pc = "start"
    /\ LET c == att[a].checkout
           info_voucher == get_voucher_for_checkout_info(c)
       IN
       /\ checkouts[c].exists
       /\ \E delete_checkout \in BOOLEAN :
            att' = [att EXCEPT
                ![a].flow = "direct",
                ![a].voucher = info_voucher,
                ![a].delete_checkout = delete_checkout,
                ![a].pc = IF info_voucher THEN "t_voucher" ELSE "t_lock"]
    /\ UNCHANGED <<channel, checkouts, voucher, orders, reservations, now,
                   locks, tx, on_commit, hooks, gateway>>
    /\ UNCHANGED <<checkout_lines, tax_configuration, order_lines>>

\* every attempt works on the first checkout
InitDirect ==
    /\ channel \in ChannelConfigs
    /\ att = [a \in Attempt |-> InitAttempt(1)]
    /\ \E v \in BOOLEAN :
         checkouts = [c \in Checkout |->
            [exists |-> TRUE, quantity |-> 1, voucher_code |-> (v /\ c = 1),
             transactions |-> FALSE, total_is_zero |-> FALSE, email |-> c,
             has_stock |-> TRUE]]
    /\ voucher = VoucherRow(MaxUsageLimit, FALSE, {})
    /\ orders = {}
    /\ reservations = {}
    /\ now = 0
    /\ locks = [checkout |-> [c \in Checkout |-> None], voucher |-> None,
                stock |-> None]
    /\ tx = [a \in Attempt |-> NoTx]
    /\ on_commit = [a \in Attempt |-> FALSE]
    /\ hooks = [order_created |-> [a \in Attempt |-> 0],
                send_order_confirmation |-> [a \in Attempt |-> 0]]
    /\ gateway = [c \in Checkout |-> [process |-> 0, refund |-> 0]]
    /\ NoLines

NextDirect ==
    \/ Next
    \/ \E a \in Attempt : create_order_from_checkout_call(a)

SpecDirect == InitDirect /\ [][NextDirect]_vars

\* --------------------------------------------- a voucher used once per customer
\* both checkouts carry the voucher, which may be limited to one use per
\* customer; the checkouts may belong to one customer, and the first customer
\* may have used the voucher in an earlier order
InitCustomer ==
    /\ channel \in ChannelConfigs
    /\ att = [a \in Attempt |-> InitAttempt(((a - 1) % NumCheckouts) + 1)]
    /\ \E email \in [Checkout -> Checkout] :
         /\ email[1] = 1
         /\ checkouts = [c \in Checkout |->
               [exists |-> TRUE, quantity |-> 1, voucher_code |-> TRUE,
                transactions |-> FALSE, total_is_zero |-> FALSE,
                email |-> email[c], has_stock |-> TRUE]]
    /\ \E once \in BOOLEAN, customers \in {{}, {1}} :
         /\ (customers # {}) => once
         /\ voucher = VoucherRow(MaxUsageLimit, once, customers)
    /\ orders = {}
    /\ reservations = {}
    /\ now = 0
    /\ locks = [checkout |-> [c \in Checkout |-> None], voucher |-> None,
                stock |-> None]
    /\ tx = [a \in Attempt |-> NoTx]
    /\ on_commit = [a \in Attempt |-> FALSE]
    /\ hooks = [order_created |-> [a \in Attempt |-> 0],
                send_order_confirmation |-> [a \in Attempt |-> 0]]
    /\ gateway = [c \in Checkout |-> [process |-> 0, refund |-> 0]]
    /\ NoLines

SpecCustomer == InitCustomer /\ [][Next]_vars

\* ------------------------------------------------------------ fair scheduling
\* the steps of one attempt: the worker that runs complete_checkout, the
\* database that grants a free row lock, and the gateway that answers
AttemptStep(a) ==
    \/ complete_checkout(a)
    \/ _increase_voucher_usage(a)
    \/ create_order_from_checkout(a)
    \/ _create_order_from_checkout(a)
    \/ create_order_from_checkout_except(a)
    \/ create_order_from_checkout_rollback(a)
    \/ create_order_from_checkout_commit(a)
    \/ complete_checkout_with_payment(a)
    \/ complete_checkout_pre_payment_part(a)
    \/ _process_voucher_data_for_order(a)
    \/ pre_payment_refund_or_void(a)
    \/ _process_payment(a)
    \/ complete_checkout_with_payment_phase3(a)
    \/ complete_checkout_post_payment_part(a)
    \/ post_payment_refund_or_void(a)
    \/ complete_checkout_with_payment_commit(a)

\* ------------------------------------------------------ one call after another
\* a caller that retries: complete_checkout is called again only when the
\* calls before it have ended
complete_checkout_later(a) ==
    /\ \A b \in 1..(a - 1) : att[b].pc = "done"
    /\ complete_checkout(a)

\* every attempt is on the first checkout, which may carry the voucher
InitLater ==
    /\ channel \in ChannelConfigs
    /\ att = [a \in Attempt |-> InitAttempt(1)]
    /\ \E v \in BOOLEAN, q \in 1..MaxQuantity :
         checkouts = [c \in Checkout |->
            [exists |-> TRUE, quantity |-> IF c = 1 THEN q ELSE 1,
             voucher_code |-> (v /\ c = 1),
             transactions |-> FALSE, total_is_zero |-> FALSE, email |-> c,
             has_stock |-> TRUE]]
    /\ \E limit \in 1..MaxUsageLimit : voucher = VoucherRow(limit, FALSE, {})
    /\ orders = {}
    /\ reservations = {}
    /\ now = 0
    /\ locks = [checkout |-> [c \in Checkout |-> None], voucher |-> None,
                stock |-> None]
    /\ tx = [a \in Attempt |-> NoTx]
    /\ on_commit = [a \in Attempt |-> FALSE]
    /\ hooks = [order_created |-> [a \in Attempt |-> 0],
                send_order_confirmation |-> [a \in Attempt |-> 0]]
    /\ gateway = [c \in Checkout |-> [process |-> 0, refund |-> 0]]
    /\ NoLines

NextLater ==
    \/ Tick
    \/ \E c \in Checkout : TransactionCreated(c)
    \/ \E a \in Attempt :
         \/ complete_checkout_later(a)
         \/ _increase_voucher_usage(a)
         \/ create_order_from_checkout(a)
         \/ _create_order_from_checkout(a)
         \/ create_order_from_checkout_except(a)
         \/ create_order_from_checkout_rollback(a)
         \/ create_order_from_checkout_commit(a)
         \/ complete_checkout_with_payment(a)
         \/ complete_checkout_pre_payment_part(a)
         \/ _process_voucher_data_for_order(a)
         \/ pre_payment_refund_or_void(a)
         \/ _process_payment(a)
         \/ complete_checkout_with_payment_phase3(a)
         \/ complete_checkout_post_payment_part(a)
         \/ post_payment_refund_or_void(a)
         \/ complete_checkout_with_payment_commit(a)

SpecLater == InitLater /\ [][NextLater]_vars

\* attempts on the same or on different checkouts, every checkout with the
\* voucher, so that they contend for the checkout, voucher and stock rows
InitFair ==
    /\ channel \in ChannelConfigs
    /\ \E target \in [Attempt -> Checkout] :
         /\ target[1] = 1
         /\ att = [a \in Attempt |-> InitAttempt(target[a])]
    /\ checkouts = [c \in Checkout |->
          [exists |-> TRUE, quantity |-> 1, voucher_code |-> TRUE,
           transactions |-> FALSE, total_is_zero |-> FALSE, email |-> c,
           has_stock |-> TRUE]]
    /\ voucher = VoucherRow(MaxUsageLimit, FALSE, {})
    /\ orders = {}
    /\ reservations = {}
    /\ now = 0
    /\ locks = [checkout |-> [c \in Checkout |-> None], voucher |-> None,
                stock |-> None]
    /\ tx = [a \in Attempt |-> NoTx]
    /\ on_commit = [a \in Attempt |-> FALSE]
    /\ hooks = [order_created |-> [a \in Attempt |-> 0],
                send_order_confirmation |-> [a \in Attempt |-> 0]]
    /\ gateway = [c \in Checkout |-> [process |-> 0, refund |-> 0]]
    /\ NoLines

SpecFair ==
    InitFair /\ [][Next]_vars /\ \A a \in Attempt : WF_vars(AttemptStep(a))

\* ------------------------------------------------- checkout lines that change
\* another actor changes the quantity of the checkout line and commits; the
\* change saves the checkout row, so it waits for a select_for_update on it
LineChanged(c) ==
    /\ checkouts[c].exists
    /\ locks.checkout[c] = None
    /\ \E a \in Attempt : att[a].checkout = c /\ att[a].pc # "done"
    /\ \E quantity \in (1..MaxQuantity) \ {checkouts[c].quantity} :
         checkouts' = [checkouts EXCEPT ![c].quantity = quantity]
    /\ UNCHANGED <<channel, voucher, orders, reservations, now, locks, att, tx,
                   on_commit, hooks, gateway>>
    /\ UNCHANGED <<checkout_lines, tax_configuration, order_lines>>

\* one attempt per checkout; the variant of the first checkout's line may have
\* no Stock row, the second checkout carries the voucher
InitLines ==
    /\ channel \in ChannelConfigs
    /\ att = [a \in Attempt |-> InitAttempt(((a - 1) % NumCheckouts) + 1)]
    /\ \E stock \in BOOLEAN :
         checkouts = [c \in Checkout |->
            [exists |-> TRUE, quantity |-> 1, voucher_code |-> (c # 1),
             transactions |-> FALSE, total_is_zero |-> FALSE, email |-> c,
             has_stock |-> (stock \/ c # 1)]]
    /\ voucher = VoucherRow(MaxUsageLimit, FALSE, {})
    /\ orders = {}
    /\ reservations = {}
    /\ now = 0
    /\ locks = [checkout |-> [c \in Checkout |-> None], voucher |-> None,
                stock |-> None]
    /\ tx = [a \in Attempt |-> NoTx]
    /\ on_commit = [a \in Attempt |-> FALSE]
    /\ hooks = [order_created |-> [a \in Attempt |-> 0],
                send_order_confirmation |-> [a \in Attempt |-> 0]]
    /\ gateway = [c \in Checkout |-> [process |-> 0, refund |-> 0]]
    /\ NoLines

NextLines ==
    \/ Next
    \/ \E c \in Checkout : LineChanged(c)

SpecLines == InitLines /\ [][NextLines]_vars

\* ------------------------------------------------------------- order lines
\* Money and TaxedMoney of the prices library, in whole units of one currency
Money(amount) == [amount |-> amount, currency |-> "USD"]

TaxedMoney(net, gross) == [net |-> net, gross |-> gross]

\* TaxedMoney.__sub__: net and gross are subtracted separately
TaxedMoneySub(x, y) ==
    TaxedMoney(Money(x.net.amount - y.net.amount),
               Money(x.gross.amount - y.gross.amount))

TaxRates == {0, 100}            \* percent
Names    == {"shirt", "koszula"}
NullName == "<null>"            \* a translation row whose name is NULL
NoRow    == "<no row>"          \* no translation row for the language

\* CheckoutLineInfo with what the pricing engine and the translation tables
\* hold for it: the variant's unit price, the unit discounts of its promotion
\* and of the voucher (0: none), the tax rate, the names and the translations
\* for the checkout's language
CheckoutLineInfos ==
    [price : 0..MaxPrice, promotion : 0..MaxDiscount, voucher : 0..MaxDiscount,
     tax_rate : TaxRates, product_name : Names, variant_name : Names,
     product_translation : Names \cup {NullName, NoRow},
     variant_translation : Names \cup {NullName, NoRow}]

\* calculate_undiscounted_base_line_unit_price: the price before any discount
calculate_undiscounted_base_line_unit_price(line) == Money(line.price)

\* calculate_base_line_unit_price: the price with promotion and voucher
\* discounts applied, never below zero
calculate_base_line_unit_price(line) ==
    LET price == line.price - line.promotion - line.voucher
    IN Money(IF price < 0 THEN 0 ELSE price)

\* calculations.checkout_line_unit_price: the discounted price with tax, the
\* entered price being the gross or the net price
checkout_line_unit_price(line, prices_entered_with_tax) ==
    LET base == calculate_base_line_unit_price(line).amount
    IN IF prices_entered_with_tax
       THEN TaxedMoney(Money((base * 100) \div (100 + line.tax_rate)),
                       Money(base))
       ELSE TaxedMoney(Money(base),
                       Money((base * (100 + line.tax_rate)) \div 100))

\* "{row["product_id"]: row.get("name") for row in products_translation}": the
\* ids that have a translation row, with the name of the row
TranslationDict(lines, field) ==
    [id \in {l \in DOMAIN lines : lines[l][field] # NoRow} |-> lines[id][field]]

\* dict.get(key, default)
DictGet(dict, key, default) == IF key \in DOMAIN dict THEN dict[key] ELSE default

translated_name_kept(translation, name) == translation

\* "if translated_product_name == product_name: translated_product_name = ''"
translated_name(translation, name) ==
    IF translation = name THEN "" ELSE translation

discount_amount_other_basis(discount_price, prices_entered_with_tax) ==
    IF prices_entered_with_tax THEN discount_price.net ELSE discount_price.gross

\* "if prices_entered_with_tax: discount_amount = discount_price.gross
\*  else: discount_amount = discount_price.net"
discount_amount(discount_price, prices_entered_with_tax) ==
    IF prices_entered_with_tax THEN discount_price.gross ELSE discount_price.net

\* _create_line_for_order: the OrderLine built for one checkout line
_create_line_for_order(id, line, products_translation, variants_translation, prices_entered_with_tax) ==
    LET undiscounted_base_unit_price ==
            calculate_undiscounted_base_line_unit_price(line)
        undiscounted_unit_price ==
            TaxedMoney(undiscounted_base_unit_price, undiscounted_base_unit_price)
        unit_price == checkout_line_unit_price(line, prices_entered_with_tax)
        discount_price == TaxedMoneySub(undiscounted_unit_price, unit_price)
        amount == discount_amount(discount_price, prices_entered_with_tax)
    IN [product_name |-> line.product_name,
        variant_name |-> line.variant_name,
        translated_product_name |->
            translated_name(DictGet(products_translation, id, ""),
                            line.product_name),
        translated_variant_name |->
            translated_name(DictGet(variants_translation, id, ""),
                            line.variant_name),
        unit_price |-> unit_price,
        undiscounted_unit_price |-> undiscounted_unit_price,
        unit_discount |-> amount,
        unit_discount_value |-> amount.amount,
        base_unit_price |-> calculate_base_line_unit_price(line),
        undiscounted_base_unit_price |-> undiscounted_base_unit_price]

\* _create_lines_for_order: the translations of the checkout's language are
\* read, the stock is checked for the lines (InsufficientStock leaves without
\* a line), and one OrderLine is built per checkout line
_create_lines_for_order ==
    /\ order_lines = <<>>
    /\ checkout_lines # <<>>
    /\ check_stock_and_preorder_quantity_bulk(1, checkouts[1].quantity)
    /\ LET products_translation ==
               TranslationDict(checkout_lines, "product_translation")
           variants_translation ==
               TranslationDict(checkout_lines, "variant_translation")
       IN order_lines' =
              [id \in DOMAIN checkout_lines |->
                  _create_line_for_order(
                      id, checkout_lines[id], products_translation,
                      variants_translation,
                      tax_configuration.prices_entered_with_tax)]
    /\ UNCHANGED <<channel, checkouts, voucher, orders, reservations, now,
                   locks, att, tx, on_commit, hooks, gateway, checkout_lines,
                   tax_configuration>>

\* a checkout with any lines, on a channel with either price entry, before
\* its order lines are built
InitOrderLines ==
    /\ channel \in ChannelConfigs
    /\ att = [a \in Attempt |-> InitAttempt(1)]
    /\ \E q \in {1, MaxQuantity} :
         checkouts = [c \in Checkout |->
            [exists |-> TRUE, quantity |-> IF c = 1 THEN q ELSE 1,
             voucher_code |-> FALSE,
             transactions |-> FALSE, total_is_zero |-> FALSE, email |-> c,
             has_stock |-> TRUE]]
    /\ voucher = VoucherRow(MaxUsageLimit, FALSE, {})
    /\ orders = {}
    /\ reservations = {}
    /\ now = 0
    /\ locks = [checkout |-> [c \in Checkout |-> None], voucher |-> None,
                stock |-> None]
    /\ tx = [a \in Attempt |-> NoTx]
    /\ on_commit = [a \in Attempt |-> FALSE]
    /\ hooks = [order_created |-> [a \in Attempt |-> 0],
                send_order_confirmation |-> [a \in Attempt |-> 0]]
    /\ gateway = [c \in Checkout |-> [process |-> 0, refund |-> 0]]
    /\ checkout_lines \in [1..NumLines -> CheckoutLineInfos]
    /\ tax_configuration \in [prices_entered_with_tax : BOOLEAN]
    /\ order_lines = <<>>

NextOrderLines == _create_lines_for_order

SpecOrderLines == InitOrderLines /\ [][NextOrderLines]_vars

\* ==================================================================== claims
OrdersOf(c) == {o \in orders : o.token = c}

\* attempts whose open transaction holds a not yet committed order of c
PendingOrdersOf(c) == {a \in Attempt : att[a].checkout = c /\ tx[a].order}

PendingAllocated ==
    SumQuantity({[id |-> a, quantity |-> tx[a].allocated] : a \in Attempt})

Done(a) == att[a].pc = "done"

Finishes(a) == att[a].pc # "done" /\ att'[a].pc = "done"

\* a gateway call (confirm / process_payment / payment_refund_or_void) of the
\* attempt has been issued and has not returned
GatewayInProgress(a) == att[a].pc \in {"p1_refund", "p2_gateway", "p3_refund"}

HoldsCheckoutLock(a) == locks.checkout[att[a].checkout] = a

\* C1: whatever the number and interleaving of complete_checkout attempts on a
\* checkout, in either flow, at most one Order row (committed or being
\* created) carries its token, and every attempt that returns an order
\* returns that one order.
C1_OneOrderPerToken ==
    /\ \A c \in Checkout :
         Cardinality(OrdersOf(c)) + Cardinality(PendingOrdersOf(c)) <= 1
    /\ \A a \in Attempt :
         (Done(a) /\ att[a].result.order # None) =>
            \E o \in OrdersOf(att[a].checkout) : o.id = att[a].result.order
    /\ \A a, b \in Attempt :
         (/\ Done(a) /\ Done(b) /\ att[a].checkout = att[b].checkout
          /\ att[a].result.order # None /\ att[b].result.order # None)
            => att[a].result.order = att[b].result.order

\* two attempts of different flows on one checkout both returned its order
C1_Witness ==
    \E a, b \in Attempt :
        /\ a # b /\ Done(a) /\ Done(b)
        /\ att[a].checkout = att[b].checkout
        /\ att[a].flow = "transaction" /\ att[b].flow = "payment"
        /\ att[a].result.order # None
        /\ att[a].result.order = att[b].result.order

\* C2 (state part): the quantity allocated to orders, committed or being
\* created, never exceeds the stock quantity.
C2_NoOversell == Allocated + PendingAllocated <= StockQuantity

\* C2 (step part): an attempt whose order creation would exceed the stock
\* ends that creation with the insufficient-stock error and no order.
C2_ExcessFails ==
    \A a \in Attempt :
        LET c == att[a].checkout
            excess == checkouts[c].quantity > StockQuantity - Allocated
        IN /\ (att[a].pc = "t_create" /\ att'[a].pc # "t_create" /\ excess)
                => \/ (att'[a].pc = "t_except"
                       /\ att'[a].error = "InsufficientStock")
                   \/ (att'[a].pc = "t_rollback" /\ att'[a].error = "TaxError"
                       /\ ~tx'[a].order)
           /\ (/\ att[a].pc = "p3_post" /\ att'[a].pc # "p3_post" /\ excess
               /\ ~(att'[a].pc = "p3_commit" /\ att'[a].result.order = None
                    /\ att'[a].result.error = NoError))
                => (/\ ~tx'[a].order
                    /\ "INSUFFICIENT_STOCK"
                          \in {att'[a].error, att'[a].result.error})

\* C2: for a variant with available quantity Q, after any interleaving of
\* completions of different checkouts (also while only Reservations hold the
\* stock during a gateway call) the allocated total stays within Q and a
\* completion that would exceed it fails with insufficient stock.
C2_StockNeverOversold == [](C2_NoOversell) /\ [][C2_ExcessFails]_vars

\* two checkouts asked for more than the stock: one has its order, the other
\* was refused in phase 3, after its reservation was made
C2_Witness ==
    \E a, b \in Attempt :
        /\ att[a].checkout # att[b].checkout
        /\ Done(a) /\ Done(b)
        /\ checkouts[att[a].checkout].quantity
             + checkouts[att[b].checkout].quantity > StockQuantity
        /\ OrdersOf(att[a].checkout) # {}
        /\ att[b].flow = "payment" /\ att[b].txn # "-"
        /\ att[b].result.error = "INSUFFICIENT_STOCK"

\* C3: for a checkout carrying the usage-limited voucher (no other checkout
\* carries it), once its order exists and every attempt on it has ended, the
\* usage count is the initial count plus exactly 1.
C3_UsageIsOneAfterOrder ==
    \A c \in Checkout :
        (/\ checkouts[c].voucher_code
         /\ \A d \in Checkout \ {c} : ~checkouts[d].voucher_code
         /\ OrdersOf(c) # {}
         /\ \A a \in Attempt : att[a].checkout = c => Done(a))
        => voucher.used = 1

\* C4: a transaction-flow attempt that ended with InsufficientStock or
\* GiftCardNotApplicable after incrementing the voucher usage leaves the stored
\* usage count at its pre-attempt value.
C4_TransactionFlowReleases ==
    \A a \in Attempt :
        (/\ Done(a) /\ att[a].flow = "transaction"
         /\ att[a].result.error
               \in {"INSUFFICIENT_STOCK", "GIFT_CARD_NOT_APPLICABLE"})
        => att[a].usage = 0

\* C5: a payment-flow attempt that ended without an order has given back the
\* voucher usage it took in phase 1.
C5_PaymentFlowReleases ==
    \A a \in Attempt :
        (Done(a) /\ att[a].flow = "payment" /\ att[a].result.order = None)
        => att[a].usage = 0

\* an order-creation failure of phase 3, after a successful gateway call
Phase3Failure(r, txn) ==
    /\ txn # "-"
    /\ r.error \in {"INSUFFICIENT_STOCK", "GIFT_CARD_NOT_APPLICABLE"}

C6_Compensated ==
    \A a \in Attempt :
        /\ (att[a].pc = "p3_refund") =>
              (att[a].released = 1 /\ att[a].refunds = 1)
        /\ (Done(a) /\ att[a].flow = "payment"
            /\ Phase3Failure(att[a].result, att[a].txn))
           => (/\ att[a].released = 1 /\ att[a].refunds = 1
               /\ att[a].usage = 0
               /\ gateway[att[a].checkout].refund >= 1)

C6_NoOrderLeft ==
    \A a \in Attempt :
        (Finishes(a) /\ att[a].flow = "payment"
         /\ Phase3Failure(att'[a].result, att'[a].txn))
        => {o \in orders' : o.token = att[a].checkout} = {}

\* C6: when order creation fails in phase 3 with InsufficientStock or
\* GiftCardNotApplicable after a successful gateway call, the voucher usage
\* is released and refund-or-void is requested for the payment before the
\* error is raised, and no order of the checkout exists when it is raised.
C6_Phase3FailureCompensated == [](C6_Compensated) /\ [][C6_NoOrderLeft]_vars

C6_Witness ==
    \E a \in Attempt :
        /\ Done(a) /\ att[a].flow = "payment" /\ att[a].voucher
        /\ Phase3Failure(att[a].result, att[a].txn)

\* the attempt reaches one of its three lock points and the row is gone
LosesRace(a) ==
    /\ att[a].pc \in {"t_lock", "phase1", "phase3"}
    /\ att'[a].pc # att[a].pc
    /\ ~checkouts[att[a].checkout].exists

C8_NoGatewayCallUnderLock ==
    \A a \in Attempt : ~(GatewayInProgress(a) /\ HoldsCheckoutLock(a))

\* C9: the order_created and send_order_confirmation hooks of an order have
\* run only if the order's transaction committed, and an attempt whose order
\* creation raised never had them run.
C9_HooksAfterCommit ==
    \A a \in Attempt :
        /\ (hooks.order_created[a] > 0 \/ hooks.send_order_confirmation[a] > 0)
              => \E o \in orders : o.id = a
        /\ (att[a].pc \in {"t_except", "t_rollback", "p3_refund"}
            \/ (Done(a) /\ att[a].result.error # NoError))
              => (/\ hooks.order_created[a] = 0
                  /\ hooks.send_order_confirmation[a] = 0
                  /\ ~on_commit[a])

\* one order's hooks ran while another attempt's creation was rolled back
C9_Witness ==
    \E a, b \in Attempt :
        /\ hooks.order_created[a] = 1 /\ hooks.send_order_confirmation[a] = 1
        /\ Done(b) /\ att[b].flow = "transaction"
        /\ att[b].result.error = "INSUFFICIENT_STOCK"

C10_Result ==
    \A a \in Attempt :
        (Done(a) /\ att[a].result.action_required) =>
            /\ att[a].result = Returned(None, TRUE, ActionData)
            /\ att[a].usage = 0
            /\ \A o \in orders : o.id # a

C10_CheckoutKept ==
    \A a \in Attempt :
        (Finishes(a) /\ att'[a].result.action_required) =>
            /\ checkouts'[att[a].checkout].exists
            /\ {o \in orders' : o.token = att[a].checkout} = {}

C11_ExcessQuantityFails ==
    \A a \in Attempt :
        LET c == att[a].checkout IN
        (Done(a) /\ checkouts[c].quantity > StockQuantity) =>
            /\ att[a].result.error # NoError
            /\ att[a].result.order = None
            /\ OrdersOf(c) = {}
            /\ tx[a].allocated = 0
            /\ (att[a].result.error = "INSUFFICIENT_STOCK") => att[a].usage = 0

ReservationsBy(a) == {r \in reservations : r.by = a}

NotAuthorized(a) == ~channel.allow_unpaid_orders /\ ~att[a].authorize_full

\* C12 (as claimed): when the channel has allow_unpaid_orders = False and
\* the checkout's authorize status is not FULL, complete_checkout rejects (any
\* validation error counts here as the rejection) and the attempt has created
\* no Reservation, no Order, no allocation and no voucher usage change.
C12_NotAuthorizedIsRejected ==
    \A a \in Attempt :
        (Done(a) /\ NotAuthorized(a)) =>
            /\ att[a].result.error # NoError
            /\ att[a].result.order = None
            /\ ReservationsBy(a) = {}
            /\ \A o \in orders : o.id # a
            /\ att[a].usage = 0

\* C12 (amended): the same on the transaction flow, which a checkout with a
\* payment transaction takes: the attempt is rejected with
\* CHECKOUT_NOT_FULLY_PAID, or with the billing address error that
\* clean_billing_address raises before the authorize status is looked at, and
\* has created no Reservation, no Order, no allocation and no usage change.
C12_TransactionFlowRejectsNotAuthorized ==
    \A a \in Attempt :
        (att[a].flow = "transaction" /\ NotAuthorized(a)) =>
            /\ Done(a)
            /\ att[a].result.error
                  \in {"CHECKOUT_NOT_FULLY_PAID", "BILLING_ADDRESS_NOT_SET"}
            /\ att[a].result.order = None
            /\ ReservationsBy(a) = {}
            /\ \A o \in orders : o.id # a
            /\ tx[a] = NoTx
            /\ att[a].usage = 0

\* a checkout with the voucher and a transaction that does not cover its total
\* was rejected as not fully paid
C12_Witness ==
    \E a \in Attempt :
        /\ Done(a) /\ att[a].flow = "transaction" /\ NotAuthorized(a)
        /\ checkouts[att[a].checkout].transactions
        /\ checkouts[att[a].checkout].voucher_code
        /\ att[a].result.error = "CHECKOUT_NOT_FULLY_PAID"

C13_Released ==
    \A a \in Attempt :
        (att[a].txn = "failed") =>
            /\ Done(a) /\ att[a].payment
            /\ att[a].result = Raised("PAYMENT_ERROR")
            /\ att[a].released = 1
            /\ att[a].usage = 0
            /\ tx[a] = NoTx
            /\ \A o \in orders : o.id # a

C13_NoPhase3 ==
    \A a \in Attempt :
        (att[a].txn # "failed" /\ att'[a].txn = "failed") =>
            /\ att[a].pc = "p2_gateway" /\ att'[a].pc = "done"
            /\ voucher'.used = voucher.used - (IF att[a].voucher THEN 1 ELSE 0)
            /\ orders' = orders
            /\ checkouts' = checkouts
            /\ locks' = locks

\* C13: when the gateway confirm/process call of an attempt with a payment
\* fails or returns an unsuccessful transaction, the attempt gives back the
\* voucher usage it took in phase 1, ends with PAYMENT_ERROR straight from
\* phase 2 (no phase 3, no lock taken), creates no order and leaves the
\* checkout row as it is.
C13_GatewayFailureReleases == [](C13_Released) /\ [][C13_NoPhase3]_vars

\* a gateway failure for a checkout whose voucher usage was taken in phase 1
C13_Witness ==
    \E a \in Attempt :
        /\ Done(a) /\ att[a].txn = "failed" /\ att[a].voucher
        /\ checkouts[att[a].checkout].exists

C14_Refunded ==
    \A a \in Attempt :
        (~att[a].is_active) =>
            /\ Done(a) /\ att[a].payment
            /\ att[a].txn \in {"success", "action_required"}
            /\ att[a].result = Raised("INACTIVE_PAYMENT")
            /\ att[a].refunds = 1
            /\ gateway[att[a].checkout].refund >= 1
            /\ tx[a] = NoTx
            /\ \A o \in orders : o.id # a

C14_NoPhase3 ==
    \A a \in Attempt :
        (att[a].is_active /\ ~att'[a].is_active) =>
            /\ att[a].pc = "p2_gateway" /\ att'[a].pc = "done"
            /\ gateway'[att[a].checkout].refund
                  = gateway[att[a].checkout].refund + 1
            /\ orders' = orders
            /\ locks' = locks

\* C14: when the payment is found inactive on the re-read that follows a
\* successful gateway call, the attempt requests refund-or-void for that
\* payment and ends with INACTIVE_PAYMENT straight from phase 2: phase 3 is
\* never opened and no order is created.
C14_InactivePaymentRefunded == [](C14_Refunded) /\ [][C14_NoPhase3]_vars

\* the payment became inactive during a gateway call that asked for a
\* customer action
C14_Witness ==
    \E a \in Attempt :
        /\ Done(a) /\ ~att[a].is_active /\ att[a].txn = "action_required"
        /\ att[a].result.error = "INACTIVE_PAYMENT"

\* C15: every order that complete_checkout created with a zero total on a
\* channel whose mark-as-paid strategy is PAYMENT_FLOW is marked fully paid,
\* whichever flow created it, and no order of a TRANSACTION_FLOW channel is
\* marked paid by complete_checkout.
C15_ZeroTotalMarkedPaid ==
    \A o \in orders :
        /\ (o.total_is_zero
            /\ channel.order_mark_as_paid_strategy = "PAYMENT_FLOW") => o.paid
        /\ (channel.order_mark_as_paid_strategy = "TRANSACTION_FLOW") => ~o.paid

C16_Fork ==
    \A a \in Attempt :
        (att[a].pc = "start" /\ att'[a].pc # "start") =>
            LET c == att[a].checkout IN
            att'[a].flow =
                IF \/ checkouts[c].transactions
                   \/ channel.allow_unpaid_orders
                   \/ /\ checkouts[c].total_is_zero
                      /\ channel.order_mark_as_paid_strategy = "TRANSACTION_FLOW"
                THEN "transaction" ELSE "payment"

C16_NoAction ==
    \A a \in Attempt :
        (att[a].flow = "transaction") =>
            /\ ~att[a].result.action_required
            /\ att[a].result.action_data = NoData
            /\ att[a].txn = "-"

\* C16: complete_checkout takes the transaction flow exactly when the
\* checkout has a payment transaction, or the channel allows unpaid orders, or
\* the total is zero on a TRANSACTION_FLOW channel, and the payment flow in
\* every other case; a transaction-flow attempt returns action_required =
\* False with empty action data.
C16_EntryFork == [](C16_NoAction) /\ [][C16_Fork]_vars

\* a zero-total checkout without transactions, on a TRANSACTION_FLOW channel
\* that does not allow unpaid orders, got its order from the transaction flow
C16_Witness ==
    \E a \in Attempt :
        /\ Done(a) /\ att[a].flow = "transaction" /\ att[a].result.order = a
        /\ ~channel.allow_unpaid_orders
        /\ channel.order_mark_as_paid_strategy = "TRANSACTION_FLOW"
        /\ checkouts[att[a].checkout].total_is_zero
        /\ ~checkouts[att[a].checkout].transactions

\* C17: a created order is UNFULFILLED exactly when the channel confirms new
\* orders automatically and, for an order of the transaction flow, the
\* checkout had a payment transaction when the order was created; every other
\* order is UNCONFIRMED.
C17_OrderStatus ==
    \A o \in orders :
        o.status =
            IF /\ channel.automatically_confirm_all_new_orders
               /\ (o.flow = "transaction" => o.transactions)
            THEN "UNFULFILLED" ELSE "UNCONFIRMED"

\* on an auto-confirming channel, a transaction-flow order without payment
\* transactions next to a payment-flow order
C17_Witness ==
    \E o, p \in orders :
        /\ channel.automatically_confirm_all_new_orders
        /\ o.flow = "transaction" /\ ~o.transactions
        /\ o.status = "UNCONFIRMED"
        /\ p.flow = "payment" /\ p.status = "UNFULFILLED"

C18_Step ==
    \A a \in Attempt :
        LET existing == get_by_checkout_token(att[a].checkout) IN
        (/\ att[a].pc \in {"t_create", "p3_post"}
         /\ att'[a].pc # att[a].pc
         /\ existing # None) =>
            /\ ~tx'[a].order
            /\ tx'[a].allocated = 0
            /\ att'[a].result.order \in {None, existing}

\* C18: when an Order of the checkout's token already exists (for instance
\* after create_order_from_checkout with delete_checkout = False, which keeps
\* the checkout row), a run of either materializer creates no second Order,
\* line or allocation and returns the existing order.
C18_MaterializationIdempotent == [][C18_Step]_vars

\* the exception types that are internal to the completion
InternalExceptions ==
    {"InsufficientStock", "NotApplicable", "GiftCardNotApplicable", "TaxError",
     "PaymentError"}

\* C19: whatever complete_checkout raises to its caller, on either flow, is a
\* ValidationError: InsufficientStock, NotApplicable, GiftCardNotApplicable,
\* TaxError and PaymentError never come out of it.
C19_OnlyValidationErrors ==
    \A a \in Attempt :
        (Done(a) /\ att[a].flow \in {"transaction", "payment"}) =>
            att[a].result.error \notin InternalExceptions

\* C20: when the usage-limited voucher has one use left and two different
\* checkouts carry it, whatever the interleaving and the flows of their
\* completions, at most one order is created with the voucher applied and the
\* usage count never exceeds the limit.
C20_LastUseGoesToOneOrder ==
    (/\ voucher.usage_limit = 1
     /\ \A c \in Checkout : checkouts[c].voucher_code) =>
        /\ Cardinality({o \in orders : o.voucher}) <= 1
        /\ voucher.used <= voucher.usage_limit

\* C21: an attempt that was rejected because the voucher is not applicable
\* (voucher gone under the lock, or the customer already used a voucher that
\* applies once per customer) leaves the stored usage count of the voucher at
\* its pre-attempt value, in both flows.
C21_RejectionLeavesUsage ==
    \A a \in Attempt :
        (Done(a) /\ att[a].result.error = "VOUCHER_NOT_APPLICABLE")
        => att[a].usage = 0

C22_AbsentOnlyWithOrder ==
    \A c \in Checkout : ~checkouts[c].exists => OrdersOf(c) # {}

C22_DeletedWithOrder ==
    \A c \in Checkout :
        (checkouts[c].exists /\ ~checkouts'[c].exists) =>
            \E o \in orders' \ orders : o.token = c

\* the attempt ends in an error, in action-required or in the refund-ongoing
\* skip
EndsWithoutOrder(a) == Finishes(a) /\ att'[a].result.order = None

C22_RowPresentAtEnd ==
    \A a \in Attempt :
        EndsWithoutOrder(a) => checkouts'[att[a].checkout].exists

C22_RowNotDeletedByFailure ==
    \A a \in Attempt :
        EndsWithoutOrder(a) =>
            /\ ~tx[a].deleted
            /\ checkouts'[att[a].checkout] = checkouts[att[a].checkout]

\* C22 (as claimed): the checkout row is absent only if an Order with its
\* token exists, the row is deleted in the commit that creates the order, and
\* the row is present whenever an attempt ends in an error, in action-required
\* or in the refund-ongoing skip.
C22_CheckoutDeletedOnlyWithOrder ==
    /\ [](C22_AbsentOnlyWithOrder)
    /\ [][C22_DeletedWithOrder /\ C22_RowPresentAtEnd]_vars

\* C22 (amended): the checkout row is absent only if an Order with its token
\* exists, the row is deleted in the commit that creates the order, and an
\* attempt that ends in an error, in action-required or in the refund-ongoing
\* skip has not deleted the row and does not change it when it ends (the row
\* is gone then only when another attempt's order creation removed it).
C22_FailedAttemptKeepsCheckout ==
    /\ [](C22_AbsentOnlyWithOrder)
    /\ [][C22_DeletedWithOrder /\ C22_RowNotDeletedByFailure]_vars

\* an attempt ended with a gateway failure after another attempt had created
\* the order and deleted the checkout
C22_Witness ==
    \E a, b \in Attempt :
        /\ Done(a) /\ att[a].result.error = "PAYMENT_ERROR"
        /\ Done(b) /\ att[b].result.order = b
        /\ att[a].checkout = att[b].checkout
        /\ ~checkouts[att[a].checkout].exists

\* phase 1 of the attempt ends well: the order data is computed and the lock
\* is about to be released
Phase1Ends(a) ==
    att[a].pc = "p1_voucher" /\ att'[a].pc \in {"p2_gateway", "phase3"}

\* C23: when phase 1 of the payment flow ends, a Reservation for the checkout
\* line with the line's quantity and expiry now + RESERVE_DURATION has been
\* created by the attempt, in the step that computes the order data under the
\* checkout lock, releases the lock and only then starts the gateway call.
C23_Step ==
    \A a \in Attempt :
        LET c == att[a].checkout IN
        /\ Phase1Ends(a) =>
              /\ locks.checkout[c] = a
              /\ att[a].txn = "-"
              /\ \E r \in reservations' \ reservations :
                    /\ r.line = c /\ r.by = a
                    /\ r.quantity = checkouts[c].quantity
                    /\ r.until = now + RESERVE_DURATION
        /\ (ReservationsBy(a) = {} /\ {r \in reservations' : r.by = a} # {})
              => Phase1Ends(a)

C23_ReservationForEveryLine == [][C23_Step]_vars

\* C23, for the lines whose variant has a Stock row: the Reservation is
\* created as claimed.
C23_ReservationForStockLines == [][\A a \in Attempt :
        LET c == att[a].checkout IN
        /\ (Phase1Ends(a) /\ checkouts[c].has_stock) =>
              /\ locks.checkout[c] = a
              /\ att[a].txn = "-"
              /\ \E r \in reservations' \ reservations :
                    /\ r.line = c /\ r.by = a
                    /\ r.quantity = checkouts[c].quantity
                    /\ r.until = now + RESERVE_DURATION
        /\ (ReservationsBy(a) = {} /\ {r \in reservations' : r.by = a} # {})
              => Phase1Ends(a)]_vars

\* C24: a transaction-flow attempt increments the voucher usage only while it
\* holds the checkout row lock, and an attempt that found the checkout deleted
\* and returned the existing order has not incremented the usage.
C24_IncrementUnderCheckoutLock ==
    \A a \in Attempt :
        (att[a].flow = "transaction") =>
            /\ (att[a].pc = "t_lock") => att[a].usage = 0
            /\ (Done(a) /\ att[a].result.order \notin {None, a})
                  => att[a].usage = 0

\* the attempt is in phase 1 and the state makes phase 1 fail: the stock does
\* not cover the line, or the voucher of the checkout's code is gone
Phase1MustFail(a) ==
    LET c == att[a].checkout IN
    \/ /\ att[a].pc = "p1_prepare"
       /\ ~check_stock_and_preorder_quantity_bulk(c, checkouts[c].quantity)
    \/ /\ att[a].pc = "p1_voucher"
       /\ checkouts[c].voucher_code /\ ~get_voucher_for_checkout_info(c)

\* a step of phase 1 that raises
Phase1Fails(a) ==
    /\ att[a].pc \in {"p1_prepare", "p1_voucher"}
    /\ att'[a].pc \in {"p1_refund", "done"}

C25_Step ==
    \A a \in Attempt :
        LET c == att[a].checkout IN
        /\ (Phase1MustFail(a) /\ att'[a].pc # att[a].pc) => Phase1Fails(a)
        /\ Phase1Fails(a) =>
              /\ (IF att'[a].pc = "done" THEN att'[a].result.error
                   ELSE att'[a].error)
                    \in {"CHECKOUT_NOT_FULLY_PAID", "INVALID", "TAX_ERROR",
                         "INSUFFICIENT_STOCK", "GIFT_CARD_NOT_APPLICABLE",
                         "VOUCHER_NOT_APPLICABLE"}
              /\ gateway'[c].process = gateway[c].process
              /\ reservations' = reservations
              /\ orders' = orders
              /\ ~tx'[a].order
        /\ (att[a].pc = "p1_refund" /\ att'[a].pc # "p1_refund") =>
              /\ att'[a].pc = "done"
              /\ att'[a].result = Raised(att[a].error)
              /\ gateway' = gateway
              /\ reservations' = reservations
              /\ orders' = orders
        /\ Done(a) => att'[a] = att[a]

C25_State ==
    \A a \in Attempt :
        (att[a].pc = "p1_refund") =>
            /\ att[a].txn = "-"
            /\ ReservationsBy(a) = {}
            /\ ~tx[a].order
            /\ \A o \in orders : o.id # a

\* C25: when phase 1 of the payment flow fails, the error is surfaced and the
\* attempt ends there: it never calls gateway confirm/process_payment, creates
\* no Reservation, never enters phase 3 and creates no order.
C25_Phase1FailureEndsAttempt == [](C25_State) /\ [][C25_Step]_vars

\* phase 1 failed with a tax error for a checkout with a payment: the payment
\* was refunded and never processed, and no Reservation was made
C25_Witness ==
    \E a \in Attempt :
        /\ Done(a) /\ att[a].flow = "payment" /\ att[a].payment
        /\ att[a].result.error = "TAX_ERROR"
        /\ att[a].refunds = 1
        /\ gateway[att[a].checkout].process = 0
        /\ ReservationsBy(a) = {}

\* C26: an order created in phase 3 of the payment flow carries the line
\* quantity (and with it the totals) that the same attempt computed in phase 1,
\* and its allocation is for that quantity, whatever another actor did to the
\* checkout line between the two phases.
C26_OrderCarriesPhase1Data ==
    \A o \in orders :
        (o.flow = "payment") =>
            /\ o.quantity = att[o.id].order_data.lines
            /\ o.allocated = quantity_allocated(o.token, o.quantity)

\* the line was changed during the gateway call and the order has the
\* quantity of phase 1
C26_Witness ==
    \E o \in orders :
        /\ o.flow = "payment" /\ att[o.id].txn = "success"
        /\ o.quantity # checkouts[o.token].quantity
        /\ o.quantity = att[o.id].order_data.lines

\* phase 3 of the attempt found a successful REFUND_ONGOING transaction
RefundOngoing(a) == att[a].refund_ongoing

C27_NothingCreated ==
    \A a \in Attempt :
        RefundOngoing(a) =>
            /\ att[a].pc \in {"p3_commit", "done"}
            /\ ~tx[a].order /\ tx[a].allocated = 0 /\ ~tx[a].deleted
            /\ \A o \in orders : o.id # a
            /\ att[a].result.order = None
            /\ att[a].result.error = NoError

C27_CheckoutKept ==
    \A a \in Attempt :
        (Finishes(a) /\ RefundOngoing(a)) =>
            /\ checkouts'[att[a].checkout].exists
            /\ orders' = orders

C27_OnlyWithoutActionAndRefund ==
    \A a \in Attempt :
        (att[a].flow = "payment"
         /\ (tx[a].order \/ \E o \in orders : o.id = a)) =>
            /\ ~RefundOngoing(a)
            /\ ~(att[a].payment /\ att[a].txn = "action_required")

\* C27 (as claimed): when phase 3 finds a successful REFUND_ONGOING
\* transaction of the payment, no order is created, no stock is allocated, the
\* checkout is not deleted and the result is (None, False, {}); an order is
\* created in phase 3 only when neither action is required nor a refund is
\* ongoing.
C27_RefundOngoingSkips ==
    /\ [](C27_NothingCreated /\ C27_OnlyWithoutActionAndRefund)
    /\ [](\A a \in Attempt :
             RefundOngoing(a) => att[a].result = NoOrderResult(FALSE, NoData))
    /\ [][C27_CheckoutKept]_vars

\* C27 (amended): the same, with the result (None, False, {}) when the
\* gateway transaction requires no action and (None, True, action data) when
\* it does: action-required is decided before the refund is looked at.
C27_RefundOngoingSkipsUnlessAction ==
    /\ [](C27_NothingCreated /\ C27_OnlyWithoutActionAndRefund)
    /\ [](\A a \in Attempt :
             RefundOngoing(a) =>
                att[a].result =
                    IF att[a].txn = "action_required"
                    THEN NoOrderResult(TRUE, ActionData)
                    ELSE NoOrderResult(FALSE, NoData))
    /\ [][C27_CheckoutKept]_vars

\* the skip ended an attempt whose gateway call had succeeded, and the
\* checkout is still there
C27_Witness ==
    \E a \in Attempt :
        /\ Done(a) /\ RefundOngoing(a) /\ att[a].txn = "success"
        /\ att[a].result = NoOrderResult(FALSE, NoData)
        /\ checkouts[att[a].checkout].exists

\* C28: across all attempts on one checkout, gateway confirm/process_payment
\* is called at most once for the checkout's payment.
C28_PaymentProcessedOnce ==
    \A c \in Checkout : gateway[c].process <= 1

\* the attempt has created an order, committed or still in its transaction
CreatedOrder(a) == tx[a].order \/ \E o \in orders : o.id = a

\* C29: an attempt of the payment flow that has a payment and has created an
\* order got a successful gateway transaction that requires no action and
\* found the payment active after the call; while the attempt is in phase 1,
\* in its gateway call or waiting for the phase 3 lock it has created no
\* order.
C29_OrderOnlyAfterGatewaySuccess ==
    \A a \in Attempt :
        (att[a].flow = "payment") =>
            /\ (att[a].payment /\ CreatedOrder(a)) =>
                  /\ att[a].txn = "success"
                  /\ att[a].is_active
                  /\ gateway[att[a].checkout].process >= 1
                  /\ att[a].pc \in {"p3_commit", "done"}
            /\ (att[a].pc \in {"phase1", "p1_prepare", "p1_voucher", "p1_refund",
                               "p2_gateway", "phase3", "p3_post"})
                  => ~CreatedOrder(a)

\* an order of a checkout with a payment, created after the gateway call
C29_Witness ==
    \E a \in Attempt :
        /\ Done(a) /\ att[a].flow = "payment" /\ att[a].payment
        /\ att[a].result.order = a /\ att[a].txn = "success"
        /\ \E o \in orders : o.id = a

\* the attempt holds no row lock
HoldsNoLock(a) ==
    /\ \A c \in Checkout : locks.checkout[c] # a
    /\ locks.voucher # a
    /\ locks.stock # a

\* the attempt waits for the checkout row lock
WaitsForCheckoutLock(a) == att[a].pc \in {"t_lock", "phase1", "phase3"}

C31_StoredUsageNeverBelow ==
    /\ voucher.used >= 0
    /\ \A a \in Attempt : att[a].usage >= 0

\* C31: within one attempt release_voucher_usage decrements the usage at most
\* once, and only after that attempt has incremented it; the usage the attempt
\* has stored never falls below the value before the attempt.
C31_ReleaseOnlyAfterIncrement ==
    \A a \in Attempt :
        /\ att[a].decreased <= 1
        /\ att[a].decreased <= att[a].increased
        /\ att[a].usage >= 0

\* attempt a ended with action required, attempt b on the same checkout
\* created the order, and no other attempt has run
ActionRequiredThenOrder(a, b) ==
    /\ a # b /\ att[a].checkout = att[b].checkout
    /\ \A d \in Attempt \ {a, b} : att[d].pc = "start"
    /\ att[a].pc = "done" /\ att[a].flow = "payment"
    /\ att[a].result.action_required
    /\ att[b].pc = "done" /\ att[b].result.order = b
    /\ \E o \in orders : o.id = b

\* C32: for a checkout with the usage-limited voucher (the first attempt took
\* a use of it), after a payment-flow attempt that ended with action required
\* and a later attempt that created the order, the usage count is the initial
\* count plus 1 and the order carries the voucher.
C32_RetryAfterActionRequired ==
    \A a, b \in Attempt :
        (att[a].increased = 1 /\ ActionRequiredThenOrder(a, b))
        => /\ voucher.used = 1
           /\ \A o \in orders : o.id = b => o.voucher

C32_Witness ==
    \E a, b \in Attempt :
        /\ ActionRequiredThenOrder(a, b)
        /\ att[a].increased = 1 /\ att[a].decreased = 1
        /\ att[b].increased = 1
        /\ voucher.used = 1 /\ voucher.usage_limit = 1
        /\ \E o \in orders : o.id = b /\ o.voucher

\* the attempt returned an order that another attempt created
ReturnedExistingOrder(a) ==
    /\ att[a].pc = "done"
    /\ att[a].result.order \notin {None, a}

\* C33: the order_created hook and the order confirmation have each run once
\* for every created order, and an attempt that returned an existing order
\* (guard of _create_order, or checkout gone) has queued and run neither.
C33_HooksOncePerOrder ==
    /\ \A o \in orders :
          /\ hooks.order_created[o.id] = 1
          /\ hooks.send_order_confirmation[o.id] = 1
    /\ \A a \in Attempt :
          (ReturnedExistingOrder(a) \/ \A o \in orders : o.id # a)
          => /\ hooks.order_created[a] = 0
             /\ hooks.send_order_confirmation[a] = 0
             /\ ReturnedExistingOrder(a) => ~on_commit[a]

\* a direct call created the order and kept the checkout; a payment-flow
\* attempt then got the order from the guard of _create_order and deleted the
\* checkout; the hooks of the order ran once
C33_Witness ==
    \E a, b \in Attempt :
        /\ ReturnedExistingOrder(a) /\ att[a].result.order = b
        /\ att[a].flow = "payment" /\ att[a].txn # "-"
        /\ att[b].flow = "direct" /\ ~att[b].delete_checkout
        /\ ~checkouts[att[a].checkout].exists
        /\ hooks.order_created[b] = 1 /\ hooks.send_order_confirmation[b] = 1
        /\ hooks.order_created[a] = 0

C34_Step ==
    \A a \in Attempt :
        LET c == att[a].checkout IN
        /\ Phase1Fails(a) =>
              IF att'[a].payment
              THEN /\ att'[a].pc = "p1_refund"
                   /\ att'[a].error # NoError
                   /\ gateway'[c].refund = gateway[c].refund + 1
                   /\ att'[a].refunds = att[a].refunds + 1
              ELSE /\ att'[a].pc = "done"
                   /\ att'[a].result.error # NoError
                   /\ gateway' = gateway
        /\ (att[a].pc = "p1_refund" /\ att'[a].pc # "p1_refund") =>
              /\ att'[a].pc = "done"
              /\ att'[a].result = Raised(att[a].error)
              /\ gateway' = gateway

C34_State ==
    \A a \in Attempt :
        /\ att[a].pc = "p1_refund" =>
              /\ att[a].payment /\ att[a].refunds = 1
              /\ gateway[att[a].checkout].refund >= 1
              /\ att[a].error \in {"CHECKOUT_NOT_FULLY_PAID", "INVALID",
                                   "TAX_ERROR", "INSUFFICIENT_STOCK",
                                   "GIFT_CARD_NOT_APPLICABLE",
                                   "VOUCHER_NOT_APPLICABLE"}
        /\ (/\ att[a].pc = "done" /\ att[a].flow = "payment" /\ att[a].payment
            /\ att[a].txn = "-" /\ att[a].result.error # NoError)
              => att[a].refunds = 1

\* C34: when phase 1 of the payment flow fails with a ValidationError and the
\* checkout has a payment, gateway.payment_refund_or_void is called for it
\* before the error leaves phase 1, and the error that reaches the caller is
\* the one that was raised.
C34_Phase1FailureRefunds == [](C34_State) /\ [][C34_Step]_vars

\* phase 1 failed on the stock check for a checkout with a payment: the
\* payment was refunded and the stock error reached the caller
C34_Witness ==
    \E a \in Attempt :
        /\ att[a].pc = "done" /\ att[a].flow = "payment" /\ att[a].payment
        /\ att[a].txn = "-"
        /\ att[a].result = Raised("INSUFFICIENT_STOCK")
        /\ att[a].refunds = 1
        /\ gateway[att[a].checkout].refund = 1

\* the price component that the channel's prices are entered in
Basis == IF tax_configuration.prices_entered_with_tax THEN "gross" ELSE "net"

\* C35: for every created order line, with any combination of promotion and
\* voucher discount, unit_discount is undiscounted_unit_price minus unit_price
\* on the gross component when prices are entered with tax and on the net
\* component otherwise, and unit_discount_value is that amount.
C35_UnitDiscount ==
    \A id \in DOMAIN order_lines :
        LET line == order_lines[id] IN
        /\ line.unit_discount =
               Money(line.undiscounted_unit_price[Basis].amount
                     - line.unit_price[Basis].amount)
        /\ line.unit_discount_value = line.unit_discount.amount

\* a line with a promotion and a voucher discount and a tax rate, prices
\* entered without tax: the unit discount is the two discounts together
C35_Witness ==
    \E id \in DOMAIN order_lines :
        /\ checkout_lines[id].promotion = 1 /\ checkout_lines[id].voucher = 1
        /\ checkout_lines[id].price = MaxPrice
        /\ checkout_lines[id].tax_rate = 100
        /\ ~tax_configuration.prices_entered_with_tax
        /\ order_lines[id].unit_discount_value = 2
        /\ order_lines[id].unit_price.gross # order_lines[id].unit_price.net

\* the name that C36 expects to be stored for a translation
ExpectedTranslatedName(translation, name) ==
    IF translation = NoRow \/ translation = name THEN "" ELSE translation

====
